---- MODULE Spec2Model ----
(***************************************************************************)
(* Report scheduling and financial aggregation pipeline of the budget      *)
(* tracking backend: the debounced report scheduler                        *)
(* (scheduleReportGeneration / generateMonthlyReport), the on-demand       *)
(* department report (generateReport / generateFinancialAnalysis), the     *)
(* report collection with its unique index, and deleteReport.              *)
(*                                                                         *)
(* Time is counted in milliseconds.  Every armed timer carries the time     *)
(* that is left until it expires; the clock advances in steps that never   *)
(* pass an expiry, so a timer callback runs at its expiry.  Every await of *)
(* the code is one step of the model.                                      *)
(***************************************************************************)
EXTENDS Integers, Sequences, FiniteSets, TLC

\* ------------------------------------------------------------------ bounds
\* number of setTimeout calls (timer handles) in one behaviour
MaxTimers == 3
\* number of documents ever inserted into the report collection
MaxReportIds == 3
\* number of generateReport requests in one behaviour
MaxRequests == 2
\* createExpense and updateExpense requests
MaxMutations == 1
\* numberOfMonths of a getMonthlyTrend call goes up to this
MaxMonths == 14
\* the clock advances by at most the debounce delay divided by this
ClockResolution == 2

\* --------------------------------------------------------------- constants
\* setTimeout(..., 5000): the debounce delay, in milliseconds
DebounceDelay == 5000

\* debounceTimers[key] of a key that has no entry (undefined)
NoTimer == 0

\* a value a JavaScript object or a stored document may lack: Undefined is the
\* missing value, Def(v) the present one
Undefined == <<>>
Def(v) == <<v>>

TimerIds == 1..MaxTimers

\* the period keys the scheduler is triggered for: (month, year)
Periods == {<<11, 2026>>, <<12, 2026>>}

\* const key = `${month}-${year}`
Key(month, year) == <<month, year>>

DeptIds == {"d1", "d2", "d3"}

VARIABLES
    departments,    \* Department collection: id -> document
    expenses,       \* Expense collection: set of documents
    reports,        \* AIReport collection: set of documents
    nextReportId,   \* next _id the collection hands out
    debounceTimers, \* the scheduler's registry: key -> timer handle
    timers,         \* the runtime's armed timers: handle -> seconds left
    nextTimer,      \* next timer handle setTimeout returns
    runs,           \* generateMonthlyReport invocations, one per fired timer
    requests,       \* generateReport requests
    deleting,       \* deleteReport requests between findById and deleteOne
    mutations,      \* createExpense and updateExpense requests
    trigCount,      \* history: schedule calls per key
    sinceTrigger,   \* history: seconds since the last schedule call per key
    gaps,           \* history: per key, how the time between each schedule
                    \* call and the one before it compares with the delay
    cancelled,      \* history: handles passed to clearTimeout while armed
    removing,       \* deleteDepartment requests: where each handler stands
                    \* and what it answered
    trend           \* the latest getMonthlyTrend call and what it returned

vars == <<departments, expenses, reports, nextReportId, debounceTimers, timers,
          nextTimer, runs, requests, deleting, mutations, trigCount, sinceTrigger,
          gaps, cancelled, removing, trend>>

dataVars == <<departments, expenses>>
schedVars == <<debounceTimers, timers, nextTimer>>
callVars == <<removing, trend>>
demandVars == <<requests, deleting, mutations, callVars>>
histVars == <<trigCount, sinceTrigger, gaps, cancelled>>

\* ------------------------------------------------------------------- dates
\* An instant is (year, month, day, ms since the day began).
\* new Date(year, month - 1, 1) is the first instant of the month and
\* new Date(year, month, 0, 23, 59, 59) is 23:59:59.000 of its last day.
DaysInMonth(month, year) ==
    IF month \in {4, 6, 9, 11} THEN 30
    ELSE IF month = 2
         THEN (IF (year % 4 = 0 /\ year % 100 # 0) \/ year % 400 = 0 THEN 29 ELSE 28)
         ELSE 31

Instant(year, month, day, ms) ==
    [year |-> year, month |-> month, day |-> day, ms |-> ms]

startDate(month, year) == Instant(year, month, 1, 0)

endDate(month, year) ==
    Instant(year, month, DaysInMonth(month, year), ((23 * 60 + 59) * 60 + 59) * 1000)

\* a <= b on instants: the comparison of $gte and $lte
DateLE(a, b) ==
    \/ a.year < b.year
    \/ a.year = b.year /\ a.month < b.month
    \/ a.year = b.year /\ a.month = b.month /\ a.day < b.day
    \/ a.year = b.year /\ a.month = b.month /\ a.day = b.day /\ a.ms <= b.ms

RECURSIVE SumAmounts(_)
SumAmounts(es) ==
    IF es = {} THEN 0
    ELSE LET e == CHOOSE x \in es : TRUE
         IN  e.amount + SumAmounts(es \ {e})

\* analyticsService.calculateDepartmentSpending with month and year given
calculateDepartmentSpending(departmentId, month, year) ==
    SumAmounts({e \in expenses :
                  /\ e.departmentId = departmentId
                  /\ DateLE(startDate(month, year), e.date)
                  /\ DateLE(e.date, endDate(month, year))})

\* parseFloat(x.toFixed(2)) of spent / allocated * 100, in hundredths of a
\* percent
PercentHundredths(spent, allocated) ==
    (2 * spent * 10000 + allocated) \div (2 * allocated)

\* ------------------------------------------------------- report collection
\* the fields the update document of the scheduler and create() may set
ReportFields == {"reportText", "summary", "riskLevel", "recommendations",
                 "totalBudget", "totalSpent", "departmentsSnapshot",
                 "dataSnapshot", "generatedBy"}

\* an update document that sets nothing
NoFields == [f \in ReportFields |-> Undefined]

\* the unique index { type, departmentId, month, year } of aiReportSchema
IndexKey(doc) == <<doc.type, doc.departmentId, doc.month, doc.year>>

\* a collection that admits every insert
IndexAdmitsAll(coll, doc) == TRUE

\* an insert the unique index admits
IndexAdmits(coll, doc) == \A r \in coll : IndexKey(r) # IndexKey(doc)

\* a new document: the schema's defaults for the paths the caller left out
\* (recommendations: default [], departmentsSnapshot: an array path)
NewDocument(id, type, departmentId, month, year, set) ==
    [f \in ReportFields |->
        IF set[f] # Undefined THEN set[f]
        ELSE IF f \in {"recommendations", "departmentsSnapshot"} THEN Def(<<>>)
        ELSE Undefined]
    @@ [_id |-> id, type |-> type, departmentId |-> departmentId,
        month |-> month, year |-> year]

\* Mongoose sends an update document without operators as $set of the keys
\* whose value is not undefined: every other path of the matched document
\* keeps its value
ApplySet(doc, set) ==
    [f \in DOMAIN doc |->
        IF f \in ReportFields /\ set[f] # Undefined THEN set[f] ELSE doc[f]]

\* an upsert whose filter leaves the period out
findOneAndUpdateAnyPeriod(coll, id, month, year, set) ==
    LET matching == {r \in coll : r.type = "Global"}
    IN  IF matching # {}
        THEN LET doc == CHOOSE r \in matching : TRUE
             IN  (coll \ {doc}) \cup {ApplySet(doc, set)}
        ELSE coll \cup {NewDocument(id, "Global", Undefined, month, year, set)}

\* AIReport.findOneAndUpdate({ type: 'Global', month, year }, reportData,
\*                           { upsert: true, new: true, setDefaultsOnInsert: true })
findOneAndUpdate(coll, id, month, year, set) ==
    LET matching == {r \in coll : r.type = "Global" /\ r.month = month /\ r.year = year}
    IN  IF matching # {}
        THEN LET doc == CHOOSE r \in matching : TRUE
             IN  (coll \ {doc}) \cup {ApplySet(doc, set)}
        ELSE coll \cup {NewDocument(id, "Global", Undefined, month, year, set)}

\* ------------------------------------------------------------ the scheduler
\* a clearTimeout that leaves the timer armed
clearTimeoutKeeps(ts, handle) == ts

clearTimeout(ts, handle) == [h \in (DOMAIN ts) \ {handle} |-> ts[h]]

\* a timer armed with half the delay
setTimeoutHalf(ts, handle, month, year) ==
    ts @@ (handle :> [month |-> month, year |-> year, left |-> DebounceDelay \div 2])

setTimeout(ts, handle, month, year) ==
    ts @@ (handle :> [month |-> month, year |-> year, left |-> DebounceDelay])

IdleRun ==
    [pc |-> "none", month |-> 0, year |-> 0, startGap |-> 0,
     scheduledBefore |-> 0, answer |-> "", failedAt |-> "", todo |-> {},
     departments |-> {}, totalAllocatedBudget |-> 0, totalSpent |-> 0,
     departmentsSnapshot |-> <<>>, reportData |-> NoFields]

Min(a, b) == IF a < b THEN a ELSE b

\* scheduleReportGeneration(month, year)
scheduleReportGeneration(month, year) ==
    LET key == Key(month, year)
        old == debounceTimers[key]
        cleared == IF old # NoTimer THEN clearTimeout(timers, old) ELSE timers
    IN  /\ nextTimer <= MaxTimers
        /\ timers' = setTimeout(cleared, nextTimer, month, year)
        /\ debounceTimers' = [debounceTimers EXCEPT ![key] = nextTimer]
        /\ nextTimer' = nextTimer + 1
        /\ trigCount' = [trigCount EXCEPT ![key] = @ + 1]
        /\ sinceTrigger' = [sinceTrigger EXCEPT ![key] = 0]
        /\ gaps' = [gaps EXCEPT ![key] =
                        IF trigCount[key] = 0 THEN @
                        ELSE Append(@, IF sinceTrigger[key] < DebounceDelay THEN "less"
                                       ELSE IF sinceTrigger[key] > DebounceDelay THEN "more"
                                       ELSE "equal")]
        /\ cancelled' = cancelled \cup
                          (IF old # NoTimer /\ old \in DOMAIN timers THEN {old} ELSE {})

Schedule(month, year) ==
    /\ scheduleReportGeneration(month, year)
    /\ UNCHANGED <<dataVars, reports, nextReportId, runs, demandVars>>

\* the longest the clock may advance in one step: up to the next expiry
TickLength ==
    LET step == DebounceDelay \div ClockResolution
        due == {timers[h].left : h \in DOMAIN timers}
    IN  IF \E l \in due : l < step THEN CHOOSE l \in due : \A m \in due : l <= m
        ELSE step

\* time passes; no armed timer is due
Tick ==
    /\ \A h \in DOMAIN timers : timers[h].left > 0
    /\ timers' = [h \in DOMAIN timers |->
                     [timers[h] EXCEPT !.left = @ - TickLength]]
    /\ sinceTrigger' = [k \in DOMAIN sinceTrigger |->
                           IF trigCount[k] > 0
                           THEN Min(sinceTrigger[k] + TickLength, DebounceDelay + 1)
                           ELSE sinceTrigger[k]]
    /\ UNCHANGED <<dataVars, reports, nextReportId, debounceTimers, nextTimer,
                   runs, demandVars, trigCount, gaps, cancelled>>

\* a callback that leaves its key in the registry
DeleteKeyKeeps(registry, key) == registry

\* the registry after the callback's `delete debounceTimers[key]`
DeleteKey(registry, key) == [registry EXCEPT ![key] = NoTimer]

\* a callback that removes the registry entry and starts no run
TimerFireIdle(h) ==
    /\ h \in DOMAIN timers
    /\ timers[h].left = 0
    /\ debounceTimers' = DeleteKey(debounceTimers, Key(timers[h].month, timers[h].year))
    /\ timers' = [t \in (DOMAIN timers) \ {h} |-> timers[t]]
    /\ UNCHANGED <<dataVars, reports, nextReportId, nextTimer, runs, demandVars,
                   histVars>>

\* the timer callback up to the first await of generateMonthlyReport
\* (Department.find is issued)
TimerFire(h) ==
    /\ h \in DOMAIN timers
    /\ timers[h].left = 0
    /\ LET month == timers[h].month
           year == timers[h].year
           key == Key(month, year)
       IN  /\ debounceTimers' = DeleteKey(debounceTimers, key)
           /\ runs' = [runs EXCEPT ![h] =
                          [IdleRun EXCEPT !.pc = "fetch", !.month = month,
                                          !.year = year,
                                          !.startGap = sinceTrigger[key],
                                          !.scheduledBefore = nextTimer - 1]]
    /\ timers' = [t \in (DOMAIN timers) \ {h} |-> timers[t]]
    /\ UNCHANGED <<dataVars, reports, nextReportId, nextTimer, demandVars, histVars>>

\* ------------------------------------------------- the analysis provider
\* What the provider call can end with: the request is rejected ("error"),
\* the answer carries no text ("empty"), the text is not JSON
\* ("unparseable"), the text is the JSON value null ("null"), or the text is
\* a JSON object ("object") that may lack any of the keys asked for.
AnswerObject(summary, riskLevel, recommendations) ==
    [summary |-> summary, insights |-> Def(<<"I">>),
     recommendations |-> recommendations, riskLevel |-> riskLevel]

EmptyObject ==
    [summary |-> Undefined, insights |-> Undefined,
     recommendations |-> Undefined, riskLevel |-> Undefined]

ProviderObjects ==
    {AnswerObject(Def("S1"), Def("Low"), Def(<<"R1">>)),
     EmptyObject}

ProviderAnswers ==
    {[kind |-> k, value |-> EmptyObject] :
        k \in {"error", "empty", "unparseable", "null"}}
    \cup {[kind |-> "object", value |-> o] : o \in ProviderObjects}

\* JSON.stringify of an object: the keys that are defined, in order
JSONstringify(obj) ==
    LET keys == <<"summary", "insights", "recommendations", "riskLevel">>
    IN  SelectSeq([i \in 1..Len(keys) |-> <<keys[i], obj[keys[i]]>>],
                  LAMBDA kv : kv[2] # Undefined)

\* globalPercentageUsed > 90, globalPercentageUsed being
\* totalAllocatedBudget > 0 ? (totalSpent / totalAllocatedBudget) * 100 : 0
GlobalOver(limit, totalSpent, totalAllocatedBudget) ==
    /\ totalAllocatedBudget > 0
    /\ totalSpent * 100 > limit * totalAllocatedBudget

\* the catch branch of the JSON.parse of generateMonthlyReport
SchedulerFallback(totalSpent, totalAllocatedBudget) ==
    [summary |-> Def("Automated analysis unavailable. Spending data is accurate."),
     insights |-> Def(<<"Review department spending manually.">>),
     recommendations |-> Def(<<"Generate specific department reports.">>),
     riskLevel |-> Def(IF GlobalOver(90, totalSpent, totalAllocatedBudget)
                       THEN "High" ELSE "Medium")]

\* reportData of generateMonthlyReport (type, month and year are the filter)
GlobalReportData(aiResponse, run) ==
    [NoFields EXCEPT
        !.reportText = Def(JSONstringify(aiResponse)),
        !.summary = aiResponse.summary,
        !.riskLevel = aiResponse.riskLevel,
        !.recommendations = aiResponse.recommendations,
        !.totalBudget = Def(run.totalAllocatedBudget),
        !.totalSpent = Def(run.totalSpent),
        !.departmentsSnapshot = Def(run.departmentsSnapshot)]

\* ------------------------------------------------- generateMonthlyReport
\* the invocation has returned: its locals are gone
Finished(run, pc) ==
    [IdleRun EXCEPT !.pc = pc, !.month = run.month, !.year = run.year,
                    !.startGap = run.startGap,
                    !.scheduledBefore = run.scheduledBefore]

\* the catch block of generateMonthlyReport: the error is logged, with the
\* step that raised it
Failed(run) ==
    [Finished(run, "failed") EXCEPT
        !.failedAt = IF run.pc = "ai" THEN run.answer ELSE run.pc]

\* a fetch without the status filter
RunFetchAll(h, ok) ==
    /\ runs[h].pc = "fetch"
    /\ runs' = [runs EXCEPT ![h] =
            IF ~ok THEN Failed(@)
            ELSE [@ EXCEPT !.departments = departments,
                           !.todo = {d._id : d \in departments},
                           !.pc = IF departments = {} THEN "ai" ELSE "spend"]]
    /\ UNCHANGED <<dataVars, reports, nextReportId, schedVars, demandVars, histVars>>

\* Department.find({ status: 'Active' }).lean() answers
RunFetch(h, ok) ==
    /\ runs[h].pc = "fetch"
    /\ LET found == {d \in departments : d.status = "Active"}
       IN  runs' = [runs EXCEPT ![h] =
                IF ~ok THEN Failed(@)
                ELSE [@ EXCEPT !.departments = found,
                               !.todo = {d._id : d \in found},
                               !.pc = IF found = {} THEN "ai" ELSE "spend"]]
    /\ UNCHANGED <<dataVars, reports, nextReportId, schedVars, demandVars, histVars>>

\* a fan-out that leaves out the department whose query failed and goes on
RunSpendSkips(h, id, ok) ==
    /\ runs[h].pc = "spend"
    /\ id \in runs[h].todo
    /\ LET run == runs[h]
           dept == CHOOSE d \in run.departments : d._id = id
           spent == calculateDepartmentSpending(id, run.month, run.year)
           entry == [departmentName |-> dept.name,
                     allocatedBudget |-> dept.allocatedBudget,
                     totalSpent |-> spent,
                     percentageUsed |-> IF dept.allocatedBudget > 0
                                        THEN PercentHundredths(spent, dept.allocatedBudget)
                                        ELSE 0,
                     status |-> dept.status]
           next == IF run.todo = {id} THEN "ai" ELSE "spend"
       IN  runs' = [runs EXCEPT ![h] =
                IF ~ok THEN [@ EXCEPT !.todo = @ \ {id}, !.pc = next]
                ELSE [@ EXCEPT
                        !.totalAllocatedBudget = @ + dept.allocatedBudget,
                        !.totalSpent = @ + spent,
                        !.departmentsSnapshot = Append(@, entry),
                        !.todo = @ \ {id},
                        !.pc = next]]
    /\ UNCHANGED <<dataVars, reports, nextReportId, schedVars, demandVars, histVars>>

\* one callback of the Promise.all: calculateDepartmentSpending of one
\* department answers and its continuation runs
RunSpend(h, id, ok) ==
    /\ runs[h].pc = "spend"
    /\ id \in runs[h].todo
    /\ LET run == runs[h]
           dept == CHOOSE d \in run.departments : d._id = id
           spent == calculateDepartmentSpending(id, run.month, run.year)
           percentageUsed == IF dept.allocatedBudget > 0
                             THEN PercentHundredths(spent, dept.allocatedBudget)
                             ELSE 0
           entry == [departmentName |-> dept.name,
                     allocatedBudget |-> dept.allocatedBudget,
                     totalSpent |-> spent,
                     percentageUsed |-> percentageUsed,
                     status |-> dept.status]
       IN  runs' = [runs EXCEPT ![h] =
                IF ~ok THEN Failed(@)
                ELSE [@ EXCEPT
                        !.totalAllocatedBudget = @ + dept.allocatedBudget,
                        !.totalSpent = @ + spent,
                        !.departmentsSnapshot = Append(@, entry),
                        !.todo = @ \ {id},
                        !.pc = IF run.todo = {id} THEN "ai" ELSE "spend"]]
    /\ UNCHANGED <<dataVars, reports, nextReportId, schedVars, demandVars, histVars>>

\* a run that masks every failure of the provider call with the fallback
AfterAnswerAbsorbsAll(run, answer) ==
    LET aiResponse ==
            IF answer.kind = "object" THEN answer.value
            ELSE SchedulerFallback(run.totalSpent, run.totalAllocatedBudget)
    IN  [run EXCEPT !.reportData = GlobalReportData(aiResponse, run),
                    !.answer = answer.kind,
                    !.pc = "upsert"]

\* what generateMonthlyReport does with the provider's answer, up to the
\* await of the upsert: the run with reportData built, or the run failed
AfterAnswer(run, answer) ==
    IF answer.kind \in {"error", "empty", "null"}
    THEN Failed([run EXCEPT !.answer = answer.kind])
    ELSE LET aiResponse ==
                 IF answer.kind = "unparseable"
                 THEN SchedulerFallback(run.totalSpent, run.totalAllocatedBudget)
                 ELSE answer.value
         IN  [run EXCEPT !.reportData = GlobalReportData(aiResponse, run),
                         !.answer = answer.kind,
                         !.pc = "upsert"]

\* axios.post answers
RunAI(h, answer) ==
    /\ runs[h].pc = "ai"
    /\ runs' = [runs EXCEPT ![h] = AfterAnswer(@, answer)]
    /\ UNCHANGED <<dataVars, reports, nextReportId, schedVars, demandVars, histVars>>

\* an upsert done as remove-then-insert: a failure in between leaves the
\* period without its report
RunUpsertWipes(h, ok) ==
    /\ runs[h].pc = "upsert"
    /\ IF ok
       THEN /\ \/ nextReportId <= MaxReportIds
               \/ \E r \in reports : /\ r.type = "Global"
                                     /\ r.month = runs[h].month
                                     /\ r.year = runs[h].year
            /\ reports' = findOneAndUpdate(reports, nextReportId, runs[h].month,
                                           runs[h].year, runs[h].reportData)
            /\ nextReportId' = IF Cardinality(reports') > Cardinality(reports)
                               THEN nextReportId + 1 ELSE nextReportId
            /\ runs' = [runs EXCEPT ![h] = Finished(@, "done")]
       ELSE /\ runs' = [runs EXCEPT ![h] = Failed(@)]
            /\ reports' = {r \in reports : ~(/\ r.type = "Global"
                                             /\ r.month = runs[h].month
                                             /\ r.year = runs[h].year)}
            /\ UNCHANGED nextReportId
    /\ UNCHANGED <<dataVars, schedVars, demandVars, histVars>>

\* AIReport.findOneAndUpdate answers
RunUpsert(h, ok) ==
    /\ runs[h].pc = "upsert"
    /\ IF ok
       THEN /\ \/ nextReportId <= MaxReportIds
               \/ \E r \in reports : /\ r.type = "Global"
                                     /\ r.month = runs[h].month
                                     /\ r.year = runs[h].year
            /\ reports' = findOneAndUpdate(reports, nextReportId, runs[h].month,
                                           runs[h].year, runs[h].reportData)
            /\ nextReportId' = IF Cardinality(reports') > Cardinality(reports)
                               THEN nextReportId + 1 ELSE nextReportId
            /\ runs' = [runs EXCEPT ![h] = Finished(@, "done")]
       ELSE /\ runs' = [runs EXCEPT ![h] = Failed(@)]
            /\ UNCHANGED <<reports, nextReportId>>
    /\ UNCHANGED <<dataVars, schedVars, demandVars, histVars>>

\* ------------------------------------------- generateFinancialAnalysis
\* percentageUsed > limit for percentageUsed = (totalSpent / allocatedBudget)
\* * 100 computed without a guard: a division by zero gives Infinity (greater
\* than every limit) when something was spent and NaN (greater than nothing)
\* otherwise
PercentOver(limit, totalSpent, allocatedBudget) ==
    IF allocatedBudget > 0 THEN totalSpent * 100 > limit * allocatedBudget
    ELSE totalSpent > 0

RiskFromPercent(totalSpent, allocatedBudget) ==
    IF PercentOver(90, totalSpent, allocatedBudget) THEN "High"
    ELSE IF PercentOver(75, totalSpent, allocatedBudget) THEN "Medium"
    ELSE "Low"

\* text.match(/\{[\s\S]*\}/) and JSON.parse: the object, or the fallback
\* analysis when the text holds no JSON object
ParsedAnalysis(answer, departmentData) ==
    IF answer.kind = "object"
    THEN [summary |-> answer.value.summary,
          riskLevel |-> answer.value.riskLevel,
          recommendations |-> answer.value.recommendations]
    ELSE [summary |-> Def("Fallback: percentage of the allocated budget spent."),
          riskLevel |-> Def(RiskFromPercent(departmentData.totalSpent,
                                            departmentData.allocatedBudget)),
          recommendations |-> Def(<<"Monitor spending closely to stay within budget",
                                    "Review expense categories for optimization opportunities",
                                    "Plan ahead for upcoming expenses">>)]

\* "Validate risk level" and "Ensure recommendations is an array"
ValidatedAnalysis(analysis, departmentData) ==
    [analysis EXCEPT
        !.riskLevel =
            IF @ \in {Def("Low"), Def("Medium"), Def("High")} THEN @
            ELSE Def(RiskFromPercent(departmentData.totalSpent,
                                     departmentData.allocatedBudget)),
        !.recommendations = IF @ = Undefined THEN Def(<<"null">>) ELSE @]

\* an adapter that reports every answer other than a JSON object as a failure
generateFinancialAnalysisStrict(departmentData, answer) ==
    IF answer.kind # "object"
    THEN [success |-> FALSE,
          data |-> [summary |-> Undefined, riskLevel |-> Undefined,
                    recommendations |-> Undefined]]
    ELSE [success |-> TRUE,
          data |-> ValidatedAnalysis(ParsedAnalysis(answer, departmentData),
                                     departmentData)]

\* generateFinancialAnalysis(departmentData), given what the provider call
\* ends with
generateFinancialAnalysis(departmentData, answer) ==
    IF answer.kind = "error"
    THEN [success |-> FALSE,
          data |-> [summary |-> Undefined, riskLevel |-> Undefined,
                    recommendations |-> Undefined]]
    ELSE [success |-> TRUE,
          data |-> ValidatedAnalysis(ParsedAnalysis(answer, departmentData),
                                     departmentData)]

\* --------------------------------------------------------- generateReport
\* parseFloat(x.toFixed(2)) of a quotient that may be negative
SignedHundredths(num, den) ==
    IF num >= 0 THEN PercentHundredths(num, den)
    ELSE 0 - PercentHundredths(0 - num, den)

\* percentageUsed as create() receives it: a number, Infinity or NaN
SnapshotPercent(totalSpent, allocatedBudget) ==
    IF allocatedBudget > 0
    THEN <<"number", PercentHundredths(totalSpent, allocatedBudget)>>
    ELSE IF totalSpent > 0 THEN <<"Infinity">> ELSE <<"NaN">>

previousPeriod(month, year) ==
    IF month - 1 = 0 THEN <<12, year - 1>> ELSE <<month - 1, year>>

IdleRequest ==
    [pc |-> "none", departmentId |-> "", month |-> 0, year |-> 0,
     departmentName |-> "", allocatedBudget |-> 0, totalSpent |-> 0,
     previousMonthSpent |-> 0,
     analysis |-> [summary |-> Undefined, riskLevel |-> Undefined,
                   recommendations |-> Undefined],
     aiCalled |-> FALSE, answer |-> "none", status |-> 0, message |-> "",
     error |-> "", created |-> 0,
     totalBudget |-> 0, departmentBreakdown |-> <<>>, globalAnswer |-> "none",
     data |-> Undefined]

\* the response is sent and the handler returns: its locals are gone
Respond(req, status, message) ==
    [IdleRequest EXCEPT !.pc = "done", !.status = status, !.message = message,
                        !.departmentId = req.departmentId, !.month = req.month,
                        !.year = req.year, !.aiCalled = req.aiCalled,
                        !.created = req.created]

\* the catch block of generateReport: 500 with error.message
ServerError(req, error) ==
    [Respond(req, 500, "Server error") EXCEPT !.error = error]

\* error.message of a rejected data-store call
QueryFailed == "query failed"

\* the message of the 400 answer to a request whose key has a report
ReportExists ==
    "Report already exists for this department and period. Delete the existing report first."

\* the document generateReport passes to AIReport.create
DepartmentReportData(req) ==
    [NoFields EXCEPT
        !.summary = req.analysis.summary,
        !.riskLevel = req.analysis.riskLevel,
        !.recommendations = req.analysis.recommendations,
        !.dataSnapshot =
            Def([allocatedBudget |-> req.allocatedBudget,
                 totalSpent |-> req.totalSpent,
                 remainingBudget |-> req.allocatedBudget - req.totalSpent,
                 percentageUsed |-> SnapshotPercent(req.totalSpent, req.allocatedBudget),
                 previousMonthSpent |-> req.previousMonthSpent,
                 monthOverMonthChange |->
                    IF req.previousMonthSpent > 0
                    THEN SignedHundredths(req.totalSpent - req.previousMonthSpent,
                                          req.previousMonthSpent)
                    ELSE 0]),
        !.generatedBy = Def("admin")]

\* the casts and validators create() runs: a Number path rejects NaN, and
\* riskLevel is one of the enum's values when it is set
PassesValidation(doc) ==
    /\ doc.riskLevel \in {Undefined, Def("Low"), Def("Medium"), Def("High")}
    /\ doc.dataSnapshot # Undefined =>
           doc.dataSnapshot[1].percentageUsed # <<"NaN">>

\* error.message of a document create() rejects before the insert
ValidationFailed == "AIReport validation failed"

\* error.message of an insert the unique index rejects
DuplicateKey == "E11000 duplicate key error"

\* a handler that goes on without the department
GenFindDepartmentLax(q, departmentId, month, year, ok) ==
    /\ requests[q].pc = "none"
    /\ \A p \in 1..(q - 1) : requests[p].pc # "none"
    /\ LET found == {d \in departments : d._id = departmentId}
           req == [IdleRequest EXCEPT !.departmentId = departmentId,
                                      !.month = month, !.year = year]
       IN  requests' = [requests EXCEPT ![q] =
                IF ~ok THEN ServerError(req, QueryFailed)
                ELSE IF found = {} THEN [req EXCEPT !.pc = "findExisting"]
                ELSE LET department == CHOOSE d \in found : TRUE
                     IN  [req EXCEPT !.pc = "findExisting",
                                     !.departmentName = department.name,
                                     !.allocatedBudget = department.allocatedBudget]]
    /\ UNCHANGED <<dataVars, reports, nextReportId, schedVars, runs, deleting, callVars,
                   mutations, histVars>>

\* the request arrives with a valid body and Department.findById answers
GenFindDepartment(q, departmentId, month, year, ok) ==
    /\ requests[q].pc = "none"
    /\ \A p \in 1..(q - 1) : requests[p].pc # "none"
    /\ LET found == {d \in departments : d._id = departmentId}
           req == [IdleRequest EXCEPT !.departmentId = departmentId,
                                      !.month = month, !.year = year]
       IN  requests' = [requests EXCEPT ![q] =
                IF ~ok THEN ServerError(req, QueryFailed)
                ELSE IF found = {} THEN Respond(req, 404, "Department not found")
                ELSE LET department == CHOOSE d \in found : TRUE
                     IN  [req EXCEPT !.pc = "findExisting",
                                     !.departmentName = department.name,
                                     !.allocatedBudget = department.allocatedBudget]]
    /\ UNCHANGED <<dataVars, reports, nextReportId, schedVars, runs, deleting, callVars,
                   mutations, histVars>>

\* a lookup that finds nothing
findOneNothing(coll, departmentId, month, year) == {}

\* AIReport.findOne({ departmentId, month, year })
findOne(coll, departmentId, month, year) ==
    {r \in coll : /\ r.departmentId = Def(departmentId)
                  /\ r.month = month
                  /\ r.year = year}

\* AIReport.findOne({ departmentId, month, year }) answers
GenFindExisting(q, ok) ==
    /\ requests[q].pc = "findExisting"
    /\ LET req == requests[q]
           existingReport == findOne(reports, req.departmentId, req.month, req.year)
       IN  requests' = [requests EXCEPT ![q] =
                IF ~ok THEN ServerError(req, QueryFailed)
                ELSE IF existingReport # {}
                     THEN Respond(req, 400, ReportExists)
                     ELSE [req EXCEPT !.pc = "spending"]]
    /\ UNCHANGED <<dataVars, reports, nextReportId, schedVars, runs, deleting, callVars,
                   mutations, histVars>>

\* calculateDepartmentSpending(departmentId, month, year) answers
GenSpending(q, ok) ==
    /\ requests[q].pc = "spending"
    /\ LET req == requests[q]
       IN  requests' = [requests EXCEPT ![q] =
                IF ~ok THEN ServerError(req, QueryFailed)
                ELSE [req EXCEPT
                        !.totalSpent = calculateDepartmentSpending(
                                           req.departmentId, req.month, req.year),
                        !.pc = "previous"]]
    /\ UNCHANGED <<dataVars, reports, nextReportId, schedVars, runs, deleting, callVars,
                   mutations, histVars>>

\* calculateDepartmentSpending(departmentId, prevMonth, prevYear) answers
GenPrevious(q, ok) ==
    /\ requests[q].pc = "previous"
    /\ LET req == requests[q]
           prev == previousPeriod(req.month, req.year)
       IN  requests' = [requests EXCEPT ![q] =
                IF ~ok THEN ServerError(req, QueryFailed)
                ELSE [req EXCEPT
                        !.previousMonthSpent = calculateDepartmentSpending(
                                                   req.departmentId, prev[1], prev[2]),
                        !.pc = "breakdown"]]
    /\ UNCHANGED <<dataVars, reports, nextReportId, schedVars, runs, deleting, callVars,
                   mutations, histVars>>

\* getExpenseBreakdown answers; generateFinancialAnalysis builds the prompt
\* and calls the provider
GenBreakdown(q, ok) ==
    /\ requests[q].pc = "breakdown"
    /\ requests' = [requests EXCEPT ![q] =
            IF ~ok THEN ServerError(@, QueryFailed)
            ELSE [@ EXCEPT !.pc = "ai", !.aiCalled = TRUE]]
    /\ UNCHANGED <<dataVars, reports, nextReportId, schedVars, runs, deleting, callVars,
                   mutations, histVars>>

\* the provider call ends; generateReport goes on to AIReport.create or
\* answers 500
GenAnalysis(q, answer) ==
    /\ requests[q].pc = "ai"
    /\ LET req == requests[q]
           aiResult == generateFinancialAnalysis(
                           [totalSpent |-> req.totalSpent,
                            allocatedBudget |-> req.allocatedBudget], answer)
       IN  requests' = [requests EXCEPT ![q] =
                IF ~aiResult.success
                THEN [Respond(req, 500, "Failed to generate AI analysis")
                         EXCEPT !.answer = answer.kind]
                ELSE [req EXCEPT !.analysis = aiResult.data,
                                 !.answer = answer.kind, !.pc = "create"]]
    /\ UNCHANGED <<dataVars, reports, nextReportId, schedVars, runs, deleting, callVars,
                   mutations, histVars>>

\* a create that files the report as a Global one
GenCreateGlobal(q, ok) ==
    /\ requests[q].pc = "create"
    /\ nextReportId <= MaxReportIds
    /\ LET req == requests[q]
           doc == NewDocument(nextReportId, "Global", Undefined,
                              req.month, req.year, DepartmentReportData(req))
       IN  IF ok /\ PassesValidation(doc) /\ IndexAdmits(reports, doc)
           THEN /\ reports' = reports \cup {doc}
                /\ nextReportId' = nextReportId + 1
                /\ requests' = [requests EXCEPT ![q] =
                                   [req EXCEPT !.pc = "populate",
                                               !.created = nextReportId]]
           ELSE /\ requests' = [requests EXCEPT ![q] =
                                   ServerError(req, QueryFailed)]
                /\ UNCHANGED <<reports, nextReportId>>
    /\ UNCHANGED <<dataVars, schedVars, runs, deleting, callVars,
                   mutations, histVars>>

\* AIReport.create({ type: 'Department', departmentId, month, year, ... })
\* answers
GenCreate(q, ok) ==
    /\ requests[q].pc = "create"
    /\ nextReportId <= MaxReportIds
    /\ LET req == requests[q]
           doc == NewDocument(nextReportId, "Department", Def(req.departmentId),
                              req.month, req.year, DepartmentReportData(req))
       IN  IF ok /\ PassesValidation(doc) /\ IndexAdmits(reports, doc)
           THEN /\ reports' = reports \cup {doc}
                /\ nextReportId' = nextReportId + 1
                /\ requests' = [requests EXCEPT ![q] =
                                   [req EXCEPT !.pc = "populate",
                                               !.created = nextReportId]]
           ELSE /\ requests' = [requests EXCEPT ![q] =
                    ServerError(req,
                        IF ~ok THEN QueryFailed
                        ELSE IF ~PassesValidation(doc) THEN ValidationFailed
                        ELSE DuplicateKey)]
                /\ UNCHANGED <<reports, nextReportId>>
    /\ UNCHANGED <<dataVars, schedVars, runs, deleting, callVars,
                   mutations, histVars>>

\* the two populate calls answer
GenPopulate(q, ok) ==
    /\ requests[q].pc = "populate"
    /\ requests' = [requests EXCEPT ![q] =
            IF ok THEN Respond(@, 201, "AI report generated successfully")
            ELSE ServerError(@, QueryFailed)]
    /\ UNCHANGED <<dataVars, reports, nextReportId, schedVars, runs, deleting, callVars,
                   mutations, histVars>>

\* --------------------------------------------------------- generateGlobalAI
\* the departments in the order Department.find({}) returns them
DepartmentOrder == <<"d1", "d2", "d3">>

\* analyticsService.calculateTotalBudget: no department of the model is
\* bound to the period asked for, so the sum is over Department.find({})
calculateTotalBudget(month, year) ==
    LET RECURSIVE Sum(_)
        Sum(ds) == IF ds = {} THEN 0
                   ELSE LET d == CHOOSE x \in ds : TRUE
                        IN  d.allocatedBudget + Sum(ds \ {d})
    IN  Sum(departments)

\* analyticsService.calculateTotalSpent
calculateTotalSpent(month, year) ==
    SumAmounts({e \in expenses :
                  /\ DateLE(startDate(month, year), e.date)
                  /\ DateLE(e.date, endDate(month, year))})

\* analyticsService.getDepartmentBreakdown: one entry per department, in
\* the order of the departments (percentageUsed cut to hundredths of a
\* percent; the comparisons on it are made on the quotient itself)
getDepartmentBreakdown(month, year) ==
    LET ids == SelectSeq(DepartmentOrder,
                         LAMBDA id : \E d \in departments : d._id = id)
    IN  [i \in 1..Len(ids) |->
            LET dept == CHOOSE d \in departments : d._id = ids[i]
                totalSpent == calculateDepartmentSpending(dept._id, month, year)
            IN  [departmentName |-> dept.name,
                 allocatedBudget |-> dept.allocatedBudget,
                 totalSpent |-> totalSpent,
                 remaining |-> dept.allocatedBudget - totalSpent,
                 percentageUsed |-> IF dept.allocatedBudget > 0
                                    THEN (totalSpent * 10000) \div dept.allocatedBudget
                                    ELSE 0]]

\* the fallback analysis of generateGlobalAnalysis
\* (predictedNextMonthSpend in hundredths)
GlobalFallback(globalData) ==
    [summary |-> Def("The company has spent a percentage of the total budget."),
     risks |-> LET over == SelectSeq(globalData.departmentBreakdown,
                                     LAMBDA d : GlobalOver(75, d.totalSpent, d.allocatedBudget))
               IN  [i \in 1..Len(over) |->
                       [department |-> over[i].departmentName,
                        riskLevel |-> IF GlobalOver(90, over[i].totalSpent,
                                                    over[i].allocatedBudget)
                                      THEN "High" ELSE "Medium"]],
     suggestions |-> <<"Review high-spending departments",
                       "Optimize budget allocation">>,
     predictedNextMonthSpend |-> globalData.totalSpent * 105,
     optimizationTips |-> <<"Analyze recurring expenses",
                            "Negotiate vendor contracts">>]

\* an adapter that answers a failed provider call with the fallback
generateGlobalAnalysisFallsBack(globalData, answer) ==
    [success |-> TRUE,
     data |-> Def(IF answer.kind = "object" THEN answer.value
                  ELSE GlobalFallback(globalData))]

\* generateGlobalAnalysis(globalData), given what the provider call ends
\* with: the parsed object as it came, the fallback, or success: false
generateGlobalAnalysis(globalData, answer) ==
    IF answer.kind = "error"
    THEN [success |-> FALSE, data |-> Undefined]
    ELSE [success |-> TRUE,
          data |-> Def(IF answer.kind = "object" THEN answer.value
                       ELSE GlobalFallback(globalData))]

\* the request arrives with month and year; calculateTotalBudget answers
GlobalBudget(q, month, year, ok) ==
    /\ requests[q].pc = "none"
    /\ \A p \in 1..(q - 1) : requests[p].pc # "none"
    /\ LET req == [IdleRequest EXCEPT !.month = month, !.year = year]
       IN  requests' = [requests EXCEPT ![q] =
                IF ~ok THEN ServerError(req, QueryFailed)
                ELSE [req EXCEPT !.pc = "totalSpent",
                                 !.totalBudget = calculateTotalBudget(month, year)]]
    /\ UNCHANGED <<dataVars, reports, nextReportId, schedVars, runs, deleting, callVars,
                   mutations, histVars>>

\* calculateTotalSpent answers
GlobalSpent(q, ok) ==
    /\ requests[q].pc = "totalSpent"
    /\ requests' = [requests EXCEPT ![q] =
            IF ~ok THEN ServerError(@, QueryFailed)
            ELSE [@ EXCEPT !.pc = "departmentBreakdown",
                           !.totalSpent = calculateTotalSpent(requests[q].month,
                                                            requests[q].year)]]
    /\ UNCHANGED <<dataVars, reports, nextReportId, schedVars, runs, deleting, callVars,
                   mutations, histVars>>

\* getDepartmentBreakdown answers
GlobalBreakdown(q, ok) ==
    /\ requests[q].pc = "departmentBreakdown"
    /\ requests' = [requests EXCEPT ![q] =
            IF ~ok THEN ServerError(@, QueryFailed)
            ELSE [@ EXCEPT !.pc = "monthlyTrend",
                           !.departmentBreakdown =
                               getDepartmentBreakdown(requests[q].month,
                                                      requests[q].year)]]
    /\ UNCHANGED <<dataVars, reports, nextReportId, schedVars, runs, deleting, callVars,
                   mutations, histVars>>

\* getMonthlyTrend answers (the trend goes into the prompt only);
\* generateGlobalAnalysis builds the prompt and calls the provider
GlobalTrend(q, ok) ==
    /\ requests[q].pc = "monthlyTrend"
    /\ requests' = [requests EXCEPT ![q] =
            IF ~ok THEN ServerError(@, QueryFailed)
            ELSE [@ EXCEPT !.pc = "globalAI", !.aiCalled = TRUE]]
    /\ UNCHANGED <<dataVars, reports, nextReportId, schedVars, runs, deleting, callVars,
                   mutations, histVars>>

\* the provider call ends; generateGlobalAI answers 200 with the analysis
\* or 500
GlobalAnalysis(q, answer) ==
    /\ requests[q].pc = "globalAI"
    /\ LET req == requests[q]
           aiResult == generateGlobalAnalysis(
                           [totalSpent |-> req.totalSpent,
                            departmentBreakdown |-> req.departmentBreakdown],
                           answer)
       IN  requests' = [requests EXCEPT ![q] =
                IF ~aiResult.success
                THEN [Respond(req, 500, "Failed to generate AI analysis")
                         EXCEPT !.globalAnswer = answer.kind]
                ELSE [Respond(req, 200, "")
                         EXCEPT !.globalAnswer = answer.kind,
                                !.data = aiResult.data]]
    /\ UNCHANGED <<dataVars, reports, nextReportId, schedVars, runs, deleting, callVars,
                   mutations, histVars>>

\* ---------------------------------------------------------- getMonthlyTrend
\* the calendar month new Date(year, month - 1, 1) falls in, for a month
\* that may be outside 1..12
CalendarMonth(month, year) ==
    <<((month - 1) % 12) + 1, year + ((month - 1) \div 12)>>

\* analyticsService.getMonthlyTrend(departmentId, year, numberOfMonths),
\* called when the current month is currentMonth: entry k is the one pushed
\* for i = numberOfMonths - k
getMonthlyTrend(departmentId, year, numberOfMonths, currentMonth) ==
    [k \in 1..numberOfMonths |->
        LET i == numberOfMonths - k
            back == currentMonth - i
            month == IF back <= 0 THEN back + 12 ELSE back
            yearAdjusted == IF back <= 0 THEN year - 1 ELSE year
            at == CalendarMonth(month, yearAdjusted)
        IN  [month |-> month,
             year |-> yearAdjusted,
             spent |-> IF departmentId # Undefined
                       THEN calculateDepartmentSpending(departmentId[1], at[1], at[2])
                       ELSE calculateTotalSpent(at[1], at[2])]]

\* no call of getMonthlyTrend yet
NoTrend ==
    [departmentId |-> Undefined, year |-> 0, numberOfMonths |-> 0,
     currentMonth |-> 0, entries |-> <<>>]

\* getMonthlyTrend is called and returns
TrendCall(departmentId, year, numberOfMonths, currentMonth) ==
    /\ trend' = [departmentId |-> departmentId, year |-> year,
                 numberOfMonths |-> numberOfMonths, currentMonth |-> currentMonth,
                 entries |-> getMonthlyTrend(departmentId, year, numberOfMonths,
                                             currentMonth)]
    /\ UNCHANGED <<dataVars, reports, nextReportId, schedVars, runs, requests,
                   deleting, mutations, removing, histVars>>

\* ----------------------------------------------------------- deleteReport
\* AIReport.findById(req.params.id) finds the report
DeleteFind(id) ==
    /\ \E r \in reports : r._id = id
    /\ id \notin deleting
    /\ deleting' = deleting \cup {id}
    /\ UNCHANGED <<dataVars, reports, nextReportId, schedVars, runs, requests,
                   mutations, callVars, histVars>>

\* report.deleteOne() answers
DeleteOne(id) ==
    /\ id \in deleting
    /\ reports' = {r \in reports : r._id # id}
    /\ deleting' = deleting \ {id}
    /\ UNCHANGED <<dataVars, nextReportId, schedVars, runs, requests,
                   mutations, callVars, histVars>>

\* ----------------------------------------- createExpense, updateExpense
\* the _id the Expense collection gives the document of a request
NewExpenseIds == <<"n1", "n2", "n3", "n4", "n5">>

\* req.user of the expense requests: an admin, or the head of department d1
UserRoles == {"admin", "department_head"}
UserDepartment == "d1"

IdleMutation ==
    [pc |-> "none", kind |-> "", departmentId |-> "",
     expenseId |-> "", amount |-> 0, date |-> Undefined, status |-> 0, message |-> "", error |-> "",
     armed |-> NoTimer]

\* the response is sent and the handler returns: its locals are gone
RespondMutation(req, status, message, error) ==
    [IdleMutation EXCEPT !.pc = "done", !.kind = req.kind, !.status = status,
                         !.message = message, !.error = error,
                         !.armed = req.armed]

\* createExpense arrives with a valid body and Department.findById answers
ExpFindDepartment(x, role, departmentId, amount, date, ok) ==
    /\ mutations[x].pc = "none"
    /\ \A p \in 1..(x - 1) : mutations[p].pc # "none"
    /\ LET req == [IdleMutation EXCEPT !.kind = "create",
                                       !.departmentId = departmentId,
                                       !.amount = amount, !.date = Def(date)]
       IN  mutations' = [mutations EXCEPT ![x] =
                IF ~ok THEN RespondMutation(req, 500, "Server error", QueryFailed)
                ELSE IF \A d \in departments : d._id # departmentId
                THEN RespondMutation(req, 404, "Department not found", "")
                ELSE IF role = "department_head" /\ UserDepartment # departmentId
                THEN RespondMutation(req, 403,
                         "You can only add expenses to your own department", "")
                ELSE [req EXCEPT !.pc = "create"]]
    /\ UNCHANGED <<dataVars, reports, nextReportId, schedVars, runs, requests,
                   deleting, callVars, histVars>>

\* Expense.create stores the document, or is rejected
ExpInsert(x, ok) ==
    /\ mutations[x].pc = "create"
    /\ LET req == mutations[x]
       IN  IF ok
           THEN /\ expenses' = expenses \cup
                        {[_id |-> NewExpenseIds[x], departmentId |-> req.departmentId,
                          amount |-> req.amount, date |-> req.date[1]]}
                /\ mutations' = [mutations EXCEPT ![x] = [req EXCEPT !.pc = "stored"]]
           ELSE /\ mutations' = [mutations EXCEPT ![x] =
                        RespondMutation(req, 500, "Server error", QueryFailed)]
                /\ UNCHANGED expenses
    /\ UNCHANGED <<departments, reports, nextReportId, schedVars, runs, requests,
                   deleting, callVars, histVars>>

\* a handler whose schedule call starts generateMonthlyReport itself
ExpScheduledRunsNow(x) ==
    /\ mutations[x].pc = "stored"
    /\ scheduleReportGeneration(mutations[x].date[1].month, mutations[x].date[1].year)
    /\ runs' = [runs EXCEPT ![nextTimer] =
                    [IdleRun EXCEPT !.pc = "fetch",
                                    !.month = mutations[x].date[1].month,
                                    !.year = mutations[x].date[1].year]]
    /\ mutations' = [mutations EXCEPT ![x] =
                        [@ EXCEPT !.pc = "populate", !.armed = nextTimer]]
    /\ UNCHANGED <<dataVars, reports, nextReportId, requests, deleting, callVars>>

\* the handler goes on after its write: scheduleReportGeneration(
\* expenseDate.getMonth() + 1, expenseDate.getFullYear()), then the first
\* populate is issued
ExpScheduled(x) ==
    /\ mutations[x].pc = "stored"
    /\ scheduleReportGeneration(mutations[x].date[1].month, mutations[x].date[1].year)
    /\ mutations' = [mutations EXCEPT ![x] =
                        [@ EXCEPT !.pc = "populate", !.armed = nextTimer]]
    /\ UNCHANGED <<dataVars, reports, nextReportId, runs, requests, deleting, callVars>>

\* the two populate calls answer
ExpPopulate(x, ok) ==
    /\ mutations[x].pc = "populate"
    /\ mutations' = [mutations EXCEPT ![x] =
            IF ~ok THEN RespondMutation(@, 500, "Server error", QueryFailed)
            ELSE IF @.kind = "create"
                 THEN RespondMutation(@, 201, "Expense created successfully", "")
                 ELSE RespondMutation(@, 200, "Expense updated successfully", "")]
    /\ UNCHANGED <<dataVars, reports, nextReportId, schedVars, runs, requests,
                   deleting, callVars, histVars>>

\* updateExpense arrives and Expense.findById answers; the handler assigns
\* amount || expense.amount and date || expense.date and issues save()
UpdFind(x, role, id, amount, date, ok) ==
    /\ mutations[x].pc = "none"
    /\ \A p \in 1..(x - 1) : mutations[p].pc # "none"
    /\ LET found == {e \in expenses : e._id = id}
           req == [IdleMutation EXCEPT !.kind = "update"]
       IN  mutations' = [mutations EXCEPT ![x] =
                IF ~ok THEN RespondMutation(req, 500, "Server error", QueryFailed)
                ELSE IF found = {}
                THEN RespondMutation(req, 404, "Expense not found", "")
                ELSE LET expense == CHOOSE e \in found : TRUE
                     IN  IF /\ role = "department_head"
                            /\ expense.departmentId # UserDepartment
                         THEN RespondMutation(req, 403, "Access denied", "")
                         ELSE [req EXCEPT
                                 !.pc = "save",
                                 !.expenseId = id,
                                 !.amount = IF amount # 0 THEN amount
                                            ELSE expense.amount,
                                 !.date = IF date # Undefined THEN date
                                          ELSE Def(expense.date)]]
    /\ UNCHANGED <<dataVars, reports, nextReportId, schedVars, runs, requests,
                   deleting, callVars, histVars>>

\* expense.save() stores the changed paths, or is rejected
UpdSave(x, ok) ==
    /\ mutations[x].pc = "save"
    /\ LET req == mutations[x]
       IN  IF ok
           THEN /\ expenses' = {IF e._id = req.expenseId
                                THEN [e EXCEPT !.amount = req.amount,
                                               !.date = req.date[1]]
                                ELSE e : e \in expenses}
                /\ mutations' = [mutations EXCEPT ![x] = [req EXCEPT !.pc = "stored"]]
           ELSE /\ mutations' = [mutations EXCEPT ![x] =
                        RespondMutation(req, 500, "Server error", QueryFailed)]
                /\ UNCHANGED expenses
    /\ UNCHANGED <<departments, reports, nextReportId, schedVars, runs, requests,
                   deleting, callVars, histVars>>

\* ------------------------------------------------------------ deleteExpense
\* deleteExpense arrives and Expense.findById answers; the handler issues
\* expense.deleteOne()
DelFind(x, role, id, ok) ==
    /\ mutations[x].pc = "none"
    /\ \A p \in 1..(x - 1) : mutations[p].pc # "none"
    /\ LET found == {e \in expenses : e._id = id}
           req == [IdleMutation EXCEPT !.kind = "delete"]
       IN  mutations' = [mutations EXCEPT ![x] =
                IF ~ok THEN RespondMutation(req, 500, "Server error", QueryFailed)
                ELSE IF found = {}
                THEN RespondMutation(req, 404, "Expense not found", "")
                ELSE LET expense == CHOOSE e \in found : TRUE
                     IN  IF /\ role = "department_head"
                            /\ expense.departmentId # UserDepartment
                         THEN RespondMutation(req, 403, "Access denied", "")
                         ELSE [req EXCEPT !.pc = "deleteOne", !.expenseId = id]]
    /\ UNCHANGED <<dataVars, reports, nextReportId, schedVars, runs, requests,
                   deleting, callVars, histVars>>

\* expense.deleteOne() answers and the handler responds
DelDelete(x, ok) ==
    /\ mutations[x].pc = "deleteOne"
    /\ LET req == mutations[x]
       IN  IF ok
           THEN /\ expenses' = {e \in expenses : e._id # req.expenseId}
                /\ mutations' = [mutations EXCEPT ![x] =
                        RespondMutation(req, 200, "Expense deleted successfully", "")]
           ELSE /\ mutations' = [mutations EXCEPT ![x] =
                        RespondMutation(req, 500, "Server error", QueryFailed)]
                /\ UNCHANGED expenses
    /\ UNCHANGED <<departments, reports, nextReportId, schedVars, runs, requests,
                   deleting, callVars, histVars>>

\* --------------------------------------------------------- deleteDepartment
\* a deleteDepartment request: the department asked for, where the handler
\* stands, and its answer (the 400 message carries expenseCount)
Removal(departmentId, pc, status, message, expenseCount) ==
    [departmentId |-> departmentId, pc |-> pc, status |-> status,
     message |-> message, expenseCount |-> expenseCount]

\* deleteDepartment arrives and Department.findById answers; the handler
\* issues Expense.countDocuments
DepFind(id, ok) ==
    /\ \A r \in removing : r.departmentId # id
    /\ removing' = removing \cup
          {IF ~ok THEN Removal(id, "done", 500, "Server error", 0)
           ELSE IF \A d \in departments : d._id # id
           THEN Removal(id, "done", 404, "Department not found", 0)
           ELSE Removal(id, "count", 0, "", 0)}
    /\ UNCHANGED <<dataVars, reports, nextReportId, schedVars, runs, requests,
                   deleting, mutations, trend, histVars>>

\* Expense.countDocuments answers; the handler issues department.deleteOne()
\* when the count is 0
DepCount(id, ok) ==
    /\ Removal(id, "count", 0, "", 0) \in removing
    /\ LET expenseCount == Cardinality({e \in expenses : e.departmentId = id})
       IN  removing' = (removing \ {Removal(id, "count", 0, "", 0)}) \cup
              {IF ~ok THEN Removal(id, "done", 500, "Server error", 0)
               ELSE IF expenseCount > 0
               THEN Removal(id, "done", 400,
                            "Cannot delete department. It has associated expenses.",
                            expenseCount)
               ELSE Removal(id, "deleteOne", 0, "", 0)}
    /\ UNCHANGED <<dataVars, reports, nextReportId, schedVars, runs, requests,
                   deleting, mutations, trend, histVars>>

\* department.deleteOne() answers and the handler responds
DepDeleteOne(id, ok) ==
    /\ Removal(id, "deleteOne", 0, "", 0) \in removing
    /\ IF ok
       THEN /\ departments' = {d \in departments : d._id # id}
            /\ removing' = (removing \ {Removal(id, "deleteOne", 0, "", 0)}) \cup
                   {Removal(id, "done", 200, "Department deleted successfully", 0)}
       ELSE /\ removing' = (removing \ {Removal(id, "deleteOne", 0, "", 0)}) \cup
                   {Removal(id, "done", 500, "Server error", 0)}
            /\ UNCHANGED departments
    /\ UNCHANGED <<expenses, reports, nextReportId, schedVars, runs, requests,
                   deleting, mutations, trend, histVars>>

\* ------------------------------------------------------------- the system
Department(id, name, allocatedBudget, status) ==
    [_id |-> id, name |-> name, allocatedBudget |-> allocatedBudget,
     status |-> status]

Expense(id, departmentId, amount, date) ==
    [_id |-> id, departmentId |-> departmentId, amount |-> amount, date |-> date]

\* the Department collection: two Active departments, one of them without
\* a budget, and an Inactive one
InitialDepartments ==
    {Department("d1", "Eng", 1000, "Active"),
     Department("d2", "Ops", 0, "Active"),
     Department("d3", "Lab", 500, "Inactive")}

\* the Expense collection
InitialExpenses ==
    {Expense("e1", "d1", 950, startDate(11, 2026)),
     Expense("e2", "d2", 40, startDate(12, 2026)),
     Expense("e3", "d1", 200, endDate(10, 2026)),
     Expense("e4", "d3", 70, endDate(11, 2026))}

RequestIds == 1..MaxRequests
ReportIds == 1..MaxReportIds
\* the departmentId of a request: an Active department, one without a budget,
\* or none that exists
RequestDepartments == {"d1", "d2", "d9"}

\* the Department collection with one Active department
OneActiveDepartment ==
    {Department("d1", "Eng", 1000, "Active"),
     Department("d2", "Ops", 0, "Inactive"),
     Department("d3", "Lab", 500, "Inactive")}

MutationIds == 1..MaxMutations

\* the date of a createExpense or updateExpense request: in a period that
\* has expenses, or before 2020
ExpenseDates == {startDate(11, 2026), Instant(2019, 12, 31, 0)}

\* the keys scheduleReportGeneration is called with
RegistryKeys ==
    {Key(p[1], p[2]) : p \in Periods}
    \cup {Key(e.date.month, e.date.year) : e \in InitialExpenses}
    \cup {Key(d.month, d.year) : d \in ExpenseDates}

InitWith(departmentDocs, expenseDocs) ==
    /\ departments = departmentDocs
    /\ expenses = expenseDocs
    /\ reports = {}
    /\ nextReportId = 1
    /\ debounceTimers = [k \in RegistryKeys |-> NoTimer]
    /\ timers = <<>>
    /\ nextTimer = 1
    /\ runs = [h \in TimerIds |-> IdleRun]
    /\ requests = [q \in RequestIds |-> IdleRequest]
    /\ deleting = {}
    /\ removing = {}
    /\ trend = NoTrend
    /\ mutations = [x \in MutationIds |-> IdleMutation]
    /\ trigCount = [k \in RegistryKeys |-> 0]
    /\ sinceTrigger = [k \in RegistryKeys |-> 0]
    /\ gaps = [k \in RegistryKeys |-> <<>>]
    /\ cancelled = {}

Init == InitWith(InitialDepartments, InitialExpenses)

SchedulerNext(periods) ==
    \/ \E p \in periods : Schedule(p[1], p[2])
    \/ Tick
    \/ \E h \in TimerIds : TimerFire(h)
    \/ \E h \in TimerIds, ok \in BOOLEAN : RunFetch(h, ok)
    \/ \E h \in TimerIds, id \in DeptIds, ok \in BOOLEAN : RunSpend(h, id, ok)
    \/ \E h \in TimerIds, answer \in ProviderAnswers : RunAI(h, answer)
    \/ \E h \in TimerIds, ok \in BOOLEAN : RunUpsert(h, ok)

DemandNext(departmentIds, periods, answers) ==
    \/ \E q \in RequestIds, d \in departmentIds, p \in periods, ok \in BOOLEAN :
          GenFindDepartment(q, d, p[1], p[2], ok)
    \/ \E q \in RequestIds, ok \in BOOLEAN : GenFindExisting(q, ok)
    \/ \E q \in RequestIds, ok \in BOOLEAN : GenSpending(q, ok)
    \/ \E q \in RequestIds, ok \in BOOLEAN : GenPrevious(q, ok)
    \/ \E q \in RequestIds, ok \in BOOLEAN : GenBreakdown(q, ok)
    \/ \E q \in RequestIds, answer \in answers : GenAnalysis(q, answer)
    \/ \E q \in RequestIds, ok \in BOOLEAN : GenCreate(q, ok)
    \/ \E q \in RequestIds, ok \in BOOLEAN : GenPopulate(q, ok)
    \/ \E id \in ReportIds : DeleteFind(id)
    \/ \E id \in ReportIds : DeleteOne(id)

\* generateGlobalAI requests
GlobalNext(periods, answers) ==
    \/ \E q \in RequestIds, p \in periods, ok \in BOOLEAN :
          GlobalBudget(q, p[1], p[2], ok)
    \/ \E q \in RequestIds, ok \in BOOLEAN : GlobalSpent(q, ok)
    \/ \E q \in RequestIds, ok \in BOOLEAN : GlobalBreakdown(q, ok)
    \/ \E q \in RequestIds, ok \in BOOLEAN : GlobalTrend(q, ok)
    \/ \E q \in RequestIds, answer \in answers : GlobalAnalysis(q, answer)

\* calls of getMonthlyTrend for the company or a department, in any month
TrendNext ==
    \E departmentId \in {Undefined, Def("d1")}, year \in {2026, 2027},
       numberOfMonths \in 1..MaxMonths, currentMonth \in 1..12 :
        TrendCall(departmentId, year, numberOfMonths, currentMonth)

\* a createExpense or updateExpense request arrives
MutationStart(departmentIds, expenseIds, amounts, dates) ==
    \/ \E x \in MutationIds, role \in UserRoles, d \in departmentIds,
          date \in dates, ok \in BOOLEAN :
            ExpFindDepartment(x, role, d, 50, date, ok)
    \/ \E x \in MutationIds, role \in UserRoles, id \in expenseIds,
          amount \in amounts, date \in {Undefined} \cup {Def(d) : d \in dates},
          ok \in BOOLEAN :
            UpdFind(x, role, id, amount, date, ok)

\* a createExpense or updateExpense request goes on
MutationStep ==
    \/ \E x \in MutationIds, ok \in BOOLEAN : ExpInsert(x, ok)
    \/ \E x \in MutationIds, ok \in BOOLEAN : UpdSave(x, ok)
    \/ \E x \in MutationIds : ExpScheduled(x)
    \/ \E x \in MutationIds, ok \in BOOLEAN : ExpPopulate(x, ok)

\* deleteExpense requests
ExpenseDeleteNext(expenseIds) ==
    \/ \E x \in MutationIds, role \in UserRoles, id \in expenseIds, ok \in BOOLEAN :
          DelFind(x, role, id, ok)
    \/ \E x \in MutationIds, ok \in BOOLEAN : DelDelete(x, ok)

\* deleteDepartment requests
DepartmentDeleteNext(departmentIds) ==
    \/ \E id \in departmentIds, ok \in BOOLEAN : DepFind(id, ok)
    \/ \E id \in departmentIds, ok \in BOOLEAN : DepCount(id, ok)
    \/ \E id \in departmentIds, ok \in BOOLEAN : DepDeleteOne(id, ok)

Next ==
    \/ SchedulerNext(Periods)
    \/ DemandNext(RequestDepartments, Periods, ProviderAnswers)
    \/ GlobalNext(Periods, ProviderAnswers)
    \/ TrendNext
    \/ MutationStart(RequestDepartments, {"e1", "e2", "e9"}, {0, 60}, ExpenseDates)
    \/ MutationStep
    \/ ExpenseDeleteNext({"e1", "e2", "e9"})
    \/ DepartmentDeleteNext({"d1", "d2", "d9"})

Spec == Init /\ [][Next]_vars

\* the scheduler alone, triggered for both periods by all but one of the
\* timers
PipelineNext ==
    \/ \E p \in Periods : nextTimer < MaxTimers /\ Schedule(p[1], p[2])
    \/ Tick
    \/ \E h \in TimerIds : TimerFire(h)
    \/ \E h \in TimerIds, ok \in BOOLEAN : RunFetch(h, ok)
    \/ \E h \in TimerIds, id \in DeptIds, ok \in BOOLEAN : RunSpend(h, id, ok)
    \/ \E h \in TimerIds, answer \in ProviderAnswers : RunAI(h, answer)
    \/ \E h \in TimerIds, ok \in BOOLEAN : RunUpsert(h, ok)

PipelineSpec == Init /\ [][PipelineNext]_vars

\* generateReport and deleteReport requests alone
DemandSpec ==
    Init /\ [][DemandNext(RequestDepartments, {<<11, 2026>>}, ProviderAnswers)]_vars

\* the provider rejects the call, answers with text that is not JSON, or
\* answers with an object
StoreAnswers ==
    {a \in ProviderAnswers :
        \/ a.kind \in {"error", "unparseable"}
        \/ a.kind = "object" /\ a.value # EmptyObject}

\* the report collection under its three writers: generateReport requests
\* for one department and period, deleteReport requests, and the run of one
\* timer for that period
StoreNext ==
    \/ nextTimer = 1 /\ Schedule(11, 2026)
    \/ Tick
    \/ \E h \in TimerIds : TimerFire(h)
    \/ \E h \in TimerIds, ok \in BOOLEAN : RunFetch(h, ok)
    \/ \E h \in TimerIds, id \in DeptIds, ok \in BOOLEAN : RunSpend(h, id, ok)
    \/ \E h \in TimerIds, answer \in StoreAnswers : RunAI(h, answer)
    \/ \E h \in TimerIds, ok \in BOOLEAN : RunUpsert(h, ok)
    \/ DemandNext({"d1"}, {<<11, 2026>>}, StoreAnswers)

StoreSpec == InitWith(OneActiveDepartment, InitialExpenses) /\ [][StoreNext]_vars

\* the scheduler run again and again for one period: a schedule call comes
\* only when no timer is armed and no run is in progress
SuccessionNext ==
    \/ /\ DOMAIN timers = {}
       /\ \A h \in TimerIds : runs[h].pc \in {"none", "done", "failed"}
       /\ Schedule(11, 2026)
    \/ Tick
    \/ \E h \in TimerIds : TimerFire(h)
    \/ \E h \in TimerIds, ok \in BOOLEAN : RunFetch(h, ok)
    \/ \E h \in TimerIds, id \in DeptIds, ok \in BOOLEAN : RunSpend(h, id, ok)
    \/ \E h \in TimerIds, answer \in ProviderAnswers : RunAI(h, answer)
    \/ \E h \in TimerIds, ok \in BOOLEAN : RunUpsert(h, ok)

SuccessionSpec == Init /\ [][SuccessionNext]_vars

\* expenses of department d1 dated around the boundaries of 11/2026: at the
\* first millisecond of the month, at the endDate of the code, at the last
\* millisecond of the month, and one millisecond outside on either side
BoundaryExpenses ==
    {Expense("b1", "d1", 1, Instant(2026, 10, 31, 86399999)),
     Expense("b2", "d1", 2, Instant(2026, 11, 1, 0)),
     Expense("b3", "d1", 4, Instant(2026, 11, 30, 86399000)),
     Expense("b4", "d1", 8, Instant(2026, 11, 30, 86399999)),
     Expense("b5", "d1", 16, Instant(2026, 12, 1, 0))}

\* generateReport requests for 11/2026 over an Expense collection that holds
\* any of the boundary expenses
WindowNext == DemandNext({"d1"}, {<<11, 2026>>}, StoreAnswers)

WindowSpec ==
    /\ \E es \in SUBSET BoundaryExpenses : InitWith(OneActiveDepartment, es)
    /\ [][WindowNext]_vars

\* answers whose riskLevel is none of the schema's values: another text, or
\* the key left out
RiskAnswers ==
    {[kind |-> "object", value |-> AnswerObject(Def("S1"), Def("Critical"), Def(<<"R1">>))],
     [kind |-> "object", value |-> AnswerObject(Def("S1"), Undefined, Def(<<"R1">>))]}

\* both write paths of the report collection under such answers
RiskNext ==
    \/ nextTimer = 1 /\ Schedule(11, 2026)
    \/ Tick
    \/ \E h \in TimerIds : TimerFire(h)
    \/ \E h \in TimerIds, ok \in BOOLEAN : RunFetch(h, ok)
    \/ \E h \in TimerIds, id \in DeptIds, ok \in BOOLEAN : RunSpend(h, id, ok)
    \/ \E h \in TimerIds, answer \in RiskAnswers : RunAI(h, answer)
    \/ \E h \in TimerIds, ok \in BOOLEAN : RunUpsert(h, ok)
    \/ DemandNext({"d1"}, {<<11, 2026>>}, RiskAnswers)

RiskSpec == InitWith(OneActiveDepartment, InitialExpenses) /\ [][RiskNext]_vars

TrendSpec == Init /\ [][TrendNext]_vars

\* the two handlers that call the analysis adapter
AdapterNext ==
    \/ DemandNext(RequestDepartments, {<<11, 2026>>}, ProviderAnswers)
    \/ GlobalNext(Periods, ProviderAnswers)

AdapterSpec == Init /\ [][AdapterNext]_vars

\* createExpense and updateExpense requests and the runs they trigger
TriggerNext ==
    \/ MutationStart({"d1", "d9"}, {"e1", "e9"}, {0, 60}, ExpenseDates)
    \/ MutationStep
    \/ Tick
    \/ \E h \in TimerIds : TimerFire(h)
    \/ \E h \in TimerIds, ok \in BOOLEAN : RunFetch(h, ok)
    \/ \E h \in TimerIds, id \in DeptIds, ok \in BOOLEAN : RunSpend(h, id, ok)
    \/ \E h \in TimerIds, answer \in StoreAnswers : RunAI(h, answer)
    \/ \E h \in TimerIds, ok \in BOOLEAN : RunUpsert(h, ok)

TriggerSpec == InitWith(OneActiveDepartment, InitialExpenses) /\ [][TriggerNext]_vars

\* the scheduler alone, triggered for one period
SchedulerSpec ==
    InitWith(OneActiveDepartment, InitialExpenses)
    /\ [][SchedulerNext({<<11, 2026>>})]_vars

\* the three expense handlers and the timers their schedule calls arm
ExpenseNext ==
    \/ MutationStart({"d1", "d9"}, {"e1", "e2", "e9"}, {0, 60}, ExpenseDates)
    \/ MutationStep
    \/ ExpenseDeleteNext({"e1", "e2", "e9"})
    \/ Tick
    \/ \E h \in TimerIds : TimerFire(h)

ExpenseSpec == InitWith(OneActiveDepartment, InitialExpenses) /\ [][ExpenseNext]_vars

\* the expenses of the departments other than d1
OtherExpenses == {e \in InitialExpenses : e.departmentId # "d1"}

\* createExpense, updateExpense, deleteExpense and deleteDepartment requests
\* while department d1 has no expense yet
IntegrityNext ==
    \/ MutationStart({"d1", "d9"}, {"e2", "e9"}, {60}, ExpenseDates)
    \/ MutationStep
    \/ ExpenseDeleteNext({"e2", "e9"})
    \/ DepartmentDeleteNext({"d1", "d2", "d9"})

IntegritySpec == InitWith(InitialDepartments, OtherExpenses) /\ [][IntegrityNext]_vars

\* a trigger for 11/2026, a createExpense request that adds an expense to
\* that period and triggers again, and the runs of both timers
OverlapNext ==
    \/ nextTimer = 1 /\ Schedule(11, 2026)
    \/ \E x \in MutationIds, ok \in BOOLEAN :
          ExpFindDepartment(x, "admin", "d1", 50, startDate(11, 2026), ok)
    \/ \E x \in MutationIds, ok \in BOOLEAN : ExpInsert(x, ok)
    \/ \E x \in MutationIds : ExpScheduled(x)
    \/ \E x \in MutationIds, ok \in BOOLEAN : ExpPopulate(x, ok)
    \/ Tick
    \/ \E h \in TimerIds : TimerFire(h)
    \/ \E h \in TimerIds, ok \in BOOLEAN : RunFetch(h, ok)
    \/ \E h \in TimerIds, id \in DeptIds, ok \in BOOLEAN : RunSpend(h, id, ok)
    \/ \E h \in TimerIds, answer \in StoreAnswers : RunAI(h, answer)
    \/ \E h \in TimerIds, ok \in BOOLEAN : RunUpsert(h, ok)

OverlapSpec == InitWith(OneActiveDepartment, InitialExpenses) /\ [][OverlapNext]_vars

\* the scheduler under the event loop's guarantees: time passes, and the
\* callback of a timer that is due runs
LiveNext ==
    \/ Schedule(11, 2026)
    \/ trigCount[Key(12, 2026)] = 0 /\ Schedule(12, 2026)
    \/ Tick
    \/ \E h \in TimerIds : TimerFire(h)
    \/ \E h \in TimerIds : RunFetch(h, TRUE)
    \/ \E h \in TimerIds, id \in DeptIds : RunSpend(h, id, TRUE)
    \/ \E h \in TimerIds : RunAI(h, [kind |-> "unparseable", value |-> EmptyObject])
    \/ \E h \in TimerIds : RunUpsert(h, TRUE)

LiveSpec ==
    /\ InitWith(OneActiveDepartment, InitialExpenses)
    /\ [][LiveNext]_vars
    /\ WF_vars(Tick)
    /\ \A h \in TimerIds : WF_vars(TimerFire(h))

\* =================================================================== claims
Keys == DOMAIN debounceTimers

RunKey(h) == Key(runs[h].month, runs[h].year)

Started(h) == runs[h].pc # "none"

InProgress(h) == runs[h].pc \in {"fetch", "spend", "ai", "upsert"}

\* runs of generateMonthlyReport started for the key so far
RunsStarted(k) == Cardinality({h \in TimerIds : Started(h) /\ RunKey(h) = k})

\* armed timers of the key: runs still to come
ArmedFor(k) ==
    {h \in DOMAIN timers : Key(timers[h].month, timers[h].year) = k}

GapsAll(k, kind) == \A i \in DOMAIN gaps[k] : gaps[k][i] = kind

GapsOf(k, kind) == Cardinality({i \in DOMAIN gaps[k] : gaps[k][i] = kind})

\* C1: for every key, schedule calls that each come less than the delay after
\* the one before lead to exactly one run (one armed timer until it starts),
\* calls that each come more than the delay after the one before lead to one
\* run each, and in general the calls lead to one run more than there are
\* gaps longer than the delay.
C1_DebounceCoalescing ==
    \A k \in Keys :
        trigCount[k] >= 1 =>
            LET produced == RunsStarted(k) + Cardinality(ArmedFor(k))
            IN  /\ GapsAll(k, "less") => produced = 1
                /\ GapsAll(k, "more") => produced = trigCount[k]
                /\ GapsOf(k, "equal") = 0 => produced = 1 + GapsOf(k, "more")

\* two calls within the delay gave one run, a third call more than the delay
\* later gave a second one
C1_Witness ==
    \E k \in Keys :
        /\ gaps[k] = <<"less", "more">>
        /\ RunsStarted(k) = 2
        /\ ArmedFor(k) = {}

\* C2: a timer replaced by a schedule call while it was armed is cancelled and
\* its run never starts; the armed timer of a key expires the full delay
\* after the key's latest schedule call, and no run starts earlier than that.
C2_RescheduleCancels ==
    /\ \A h \in cancelled : ~Started(h) /\ h \notin DOMAIN timers
    /\ \A h \in DOMAIN timers :
          timers[h].left + sinceTrigger[Key(timers[h].month, timers[h].year)]
              = DebounceDelay
    /\ \A h \in TimerIds : Started(h) => runs[h].startGap >= DebounceDelay

\* a timer was cancelled by a later call for its key, and the later timer's
\* run has started
C2_Witness ==
    \E h \in cancelled, later \in TimerIds :
        /\ later > h
        /\ Started(later)
        /\ ~Started(h)

\* C3 as stated: at most one run of a key is in progress at any time
C3_OneRunInProgress ==
    \A k \in Keys :
        Cardinality({h \in TimerIds : InProgress(h) /\ RunKey(h) = k}) <= 1

\* C3, amended: a key has at most one armed timer, and two runs of a key are
\* in progress together only if the later one was scheduled by a call made
\* after the earlier one had started.
C3_OverlapOnlyAfterRetrigger ==
    /\ \A k \in Keys : Cardinality(ArmedFor(k)) <= 1
    /\ \A h1, h2 \in TimerIds :
          (/\ h1 < h2
           /\ RunKey(h1) = RunKey(h2)
           /\ InProgress(h1)
           /\ InProgress(h2)) => runs[h1].scheduledBefore < h2

\* two runs of one key are in progress together
C3_Witness ==
    \E h1, h2 \in TimerIds :
        /\ h1 < h2
        /\ RunKey(h1) = RunKey(h2)
        /\ InProgress(h1)
        /\ InProgress(h2)

\* C4: while a run is in progress the registry no longer holds its timer; a
\* schedule call leaves every run as it is and arms a new timer with the full
\* delay; a run in progress stays in progress until it ends done or failed.
C4_RunNotCancelled ==
    /\ [](\A h \in TimerIds : Started(h) => debounceTimers[RunKey(h)] # h)
    /\ [][\A k \in Keys :
            trigCount'[k] # trigCount[k] =>
                /\ runs' = runs
                /\ debounceTimers'[k] \notin DOMAIN timers
                /\ debounceTimers'[k] \in DOMAIN timers'
                /\ timers'[debounceTimers'[k]].left = DebounceDelay]_vars
    /\ [][\A h \in TimerIds :
            InProgress(h) =>
                runs'[h].pc \in {"fetch", "spend", "ai", "upsert", "done", "failed"}]_vars

\* a run is in progress while a timer armed after it started is pending for
\* its key
C4_Witness ==
    \E h \in TimerIds :
        /\ InProgress(h)
        /\ debounceTimers[RunKey(h)] > h
        /\ debounceTimers[RunKey(h)] \in DOMAIN timers

GlobalReports(month, year) ==
    {r \in reports : r.type = "Global" /\ r.month = month /\ r.year = year}

FallbackData(h) ==
    GlobalReportData(SchedulerFallback(runs[h].totalSpent,
                                       runs[h].totalAllocatedBudget), runs[h])

\* C5 as stated: once aggregation has succeeded, no failure of the analysis
\* call (request rejected, answer without text, text that is not JSON) makes
\* the run fail: it goes on to the upsert.
C5_UpstreamAlwaysAbsorbed ==
    [][\A h \in TimerIds :
          runs[h].pc = "ai" =>
              ~(/\ runs'[h].pc = "failed"
                /\ runs'[h].failedAt \in {"error", "empty", "unparseable"})]_vars

\* C5, amended: an answer whose text is not JSON is absorbed, the run goes on
\* to the upsert with the fallback result; a rejected request or an answer
\* without text fails the run at that step and nothing is written.
C5_OnlyUnparseableAbsorbed ==
    /\ [](\A h \in TimerIds :
            /\ runs[h].pc = "upsert" =>
                  /\ runs[h].answer \in {"unparseable", "object"}
                  /\ runs[h].answer = "unparseable" =>
                        runs[h].reportData = FallbackData(h)
            /\ runs[h].pc = "failed" => runs[h].failedAt # "unparseable")
    /\ [][\A h \in TimerIds :
            (runs[h].pc = "ai" /\ runs'[h].pc = "failed") => reports' = reports]_vars

\* one run failed on a rejected request and left nothing; another run's
\* fallback result is stored
C5_Witness ==
    \E h \in TimerIds :
        /\ runs[h].pc = "failed"
        /\ runs[h].failedAt = "error"
        /\ GlobalReports(runs[h].month, runs[h].year) = {}
        /\ \E r \in reports :
              /\ r.type = "Global"
              /\ r.summary = SchedulerFallback(0, 0).summary

\* C6: the step in which a run fails changes neither the stored reports nor
\* any timer, registry entry or other run, and a failed run never moves again.
C6_FailedRunKeepsReport ==
    /\ [][\A h \in TimerIds :
            (runs[h].pc # "failed" /\ runs'[h].pc = "failed") =>
                /\ reports' = reports
                /\ timers' = timers
                /\ debounceTimers' = debounceTimers
                /\ nextTimer' = nextTimer
                /\ \A g \in TimerIds \ {h} : runs'[g] = runs[g]]_vars
    /\ [][\A h \in TimerIds : runs[h].pc = "failed" => runs'[h] = runs[h]]_vars

\* a run failed at its upsert and the report stored before for its period is
\* there; no timer is armed for the period
C6_Witness ==
    \E h \in TimerIds :
        /\ runs[h].pc = "failed"
        /\ runs[h].failedAt = "upsert"
        /\ GlobalReports(runs[h].month, runs[h].year) # {}
        /\ ArmedFor(RunKey(h)) = {}

GenerationFailure(req) ==
    /\ req.pc = "done"
    /\ req.status = 500
    /\ req.message = "Failed to generate AI analysis"
    /\ req.created = 0

\* the analysis the adapter builds itself from the department's figures
FallbackAnalysis(totalSpent, allocatedBudget) ==
    [summary |-> Def("Fallback: percentage of the allocated budget spent."),
     riskLevel |-> Def(IF PercentOver(90, totalSpent, allocatedBudget) THEN "High"
                       ELSE IF PercentOver(75, totalSpent, allocatedBudget)
                            THEN "Medium" ELSE "Low"),
     recommendations |-> Def(<<"Monitor spending closely to stay within budget",
                               "Review expense categories for optimization opportunities",
                               "Plan ahead for upcoming expenses">>)]

\* C7 as stated: a generateReport request whose analysis call was rejected
\* or answered with text that is not JSON ends as a generation failure and
\* creates no report.
C7_UpstreamFailsRequest ==
    \A q \in RequestIds :
        requests[q].answer \in {"error", "unparseable"} =>
            GenerationFailure(requests[q])

\* C7, amended: a request whose analysis call was rejected ends as a
\* generation failure and creates no report; a request whose analysis call
\* answered with text that holds no JSON object does not end there: it goes
\* on to create() with the analysis the adapter builds from the department's
\* figures, and the report it creates holds that analysis.
C7_OnlyUnreachableFails ==
    /\ [](\A q \in RequestIds :
            /\ requests[q].answer = "error" => GenerationFailure(requests[q])
            /\ requests[q].answer \in {"unparseable", "empty", "null"} =>
                  /\ requests[q].pc \in {"create", "populate"}
                  /\ requests[q].analysis =
                        FallbackAnalysis(requests[q].totalSpent,
                                         requests[q].allocatedBudget))
    /\ [][\A q \in RequestIds :
            (/\ requests[q].pc = "create"
             /\ requests[q].answer \in {"unparseable", "empty", "null"}
             /\ requests'[q].pc = "populate") =>
                \E r \in reports' \ reports :
                    /\ r._id = requests'[q].created
                    /\ r.departmentId = Def(requests[q].departmentId)
                    /\ r.summary = requests[q].analysis.summary
                    /\ r.riskLevel = requests[q].analysis.riskLevel
                    /\ r.recommendations = requests[q].analysis.recommendations]_vars

\* one request ended as a generation failure on a rejected analysis call,
\* another created its report after an answer that was not JSON
C7_Witness ==
    \E q1, q2 \in RequestIds :
        /\ requests[q1].answer = "error"
        /\ GenerationFailure(requests[q1])
        /\ requests[q2].answer = "unparseable"
        /\ requests[q2].pc = "populate"
        /\ \E r \in reports :
              /\ r._id = requests[q2].created
              /\ r.departmentId = Def(requests[q2].departmentId)
              /\ r.summary = FallbackAnalysis(0, 0).summary

\* a report is stored for the request's department, month and year
KeyHasReport(req, coll) ==
    \E r \in coll :
        /\ r.departmentId = Def(req.departmentId)
        /\ r.month = req.month
        /\ r.year = req.year

\* C8: the lookup of a generateReport request whose key has a stored report
\* ends the request: it answers 400 "Report already exists ..." (500 when the
\* lookup itself is rejected), no analysis call is made for it, no report is
\* created by it, and the step leaves every stored report as it was.
C8_ConflictOnExistingKey ==
    /\ [][\A q \in RequestIds :
            (/\ requests[q].pc = "findExisting"
             /\ KeyHasReport(requests[q], reports)
             /\ requests'[q] # requests[q]) =>
                /\ requests'[q].pc = "done"
                /\ \/ /\ requests'[q].status = 400
                      /\ requests'[q].message = ReportExists
                   \/ /\ requests'[q].status = 500
                      /\ requests'[q].error = QueryFailed
                /\ ~requests'[q].aiCalled
                /\ requests'[q].created = 0
                /\ reports' = reports]_vars
    /\ [](\A q \in RequestIds :
            requests[q].message = ReportExists =>
                /\ requests[q].pc = "done"
                /\ requests[q].status = 400
                /\ ~requests[q].aiCalled
                /\ requests[q].created = 0)

\* a request was answered with the conflict while the report another
\* request created for the same key is stored
C8_Witness ==
    \E q, other \in RequestIds :
        /\ requests[q].status = 400
        /\ requests[q].message = ReportExists
        /\ ~requests[q].aiCalled
        /\ requests[other].status = 201
        /\ \E r \in reports :
              /\ r._id = requests[other].created
              /\ r.departmentId = Def(requests[q].departmentId)
              /\ r.month = requests[q].month
              /\ r.year = requests[q].year

\* C9: no two stored reports have the same type, departmentId, month and
\* year.
C9_OneReportPerKey ==
    \A r1, r2 \in reports :
        (/\ r1.type = r2.type
         /\ r1.departmentId = r2.departmentId
         /\ r1.month = r2.month
         /\ r1.year = r2.year) => r1 = r2

\* a run stored the Global report of a period, a request created the report
\* of a department for it, and the insert of a second request for the same
\* department was rejected as a duplicate
C9_Witness ==
    \E q1, q2 \in RequestIds :
        /\ requests[q1].status = 201
        /\ requests[q2].status = 500
        /\ requests[q2].error = DuplicateKey
        /\ requests[q2].departmentId = requests[q1].departmentId
        /\ \E r \in reports : r._id = requests[q1].created
        /\ GlobalReports(requests[q1].month, requests[q1].year) # {}

\* C10 as stated: after a run's upsert the stored Global report of the period
\* is the run's payload and nothing else: every field has the payload's value
\* (the schema default where the payload has none).
C10_UpsertReplaces ==
    [][\A h \in TimerIds :
          (runs[h].pc = "upsert" /\ runs'[h].pc = "done") =>
              \E r \in reports' :
                  r = NewDocument(r._id, "Global", Undefined, runs[h].month,
                                  runs[h].year, runs[h].reportData)]_vars

\* C11 as stated: departments and expenses being what they were, the upsert
\* of a run that follows the period's earlier runs leaves totalBudget,
\* totalSpent and the list departmentsSnapshot of the report stored for the
\* period as they were, whatever order the per-department computations
\* completed in.
C11_RepeatedRunSameNumbers ==
    [][\A h \in TimerIds :
          (runs[h].pc = "upsert" /\ runs'[h].pc = "done") =>
              \A old \in GlobalReports(runs[h].month, runs[h].year) :
                  \E new \in reports' :
                      /\ new._id = old._id
                      /\ new.totalBudget = old.totalBudget
                      /\ new.totalSpent = old.totalSpent
                      /\ new.departmentsSnapshot = old.departmentsSnapshot]_vars

\* the step is an event on the key: a schedule call for it, or the expiry of
\* its timer or a step of one of its runs
EventOn(k) ==
    \/ trigCount'[k] # trigCount[k]
    \/ \E h \in TimerIds :
          /\ runs'[h] # runs[h]
          /\ Key(runs'[h].month, runs'[h].year) = k

\* C12: a schedule call (with the cancel it makes), a timer expiry, and a
\* step of a run (its success and its failure included) of one key leave
\* every other key's registry entry, armed timer with the time left on it,
\* and stored Global report as they were.
C12_PeriodsIndependent ==
    [][\A a, b \in Keys :
          (a # b /\ EventOn(a)) =>
              /\ debounceTimers'[b] = debounceTimers[b]
              /\ \A h \in TimerIds :
                    (\/ (h \in DOMAIN timers /\ Key(timers[h].month, timers[h].year) = b)
                     \/ (h \in DOMAIN timers' /\ Key(timers'[h].month, timers'[h].year) = b))
                        => /\ h \in DOMAIN timers
                           /\ h \in DOMAIN timers'
                           /\ timers'[h] = timers[h]
              /\ {r \in reports' : r.type = "Global" /\ Key(r.month, r.year) = b}
                    = {r \in reports : r.type = "Global" /\ Key(r.month, r.year) = b}]_vars

\* a run of one key has failed at its upsert while the timer of another key
\* is armed, with time left on it
C12_Witness ==
    \E h \in TimerIds, b \in Keys :
        /\ runs[h].pc = "failed"
        /\ runs[h].failedAt = "upsert"
        /\ RunKey(h) # b
        /\ debounceTimers[b] \in DOMAIN timers
        /\ timers[debounceTimers[b]].left > 0

\* C13: the step in which a handler calls scheduleReportGeneration changes,
\* besides the handler's own position, only the registry entry and the timer
\* of the call's key: no run starts or moves, no collection is read into a
\* run or written, every other key's entry and timer stay as they were, and
\* the handler goes on to its next await.  No step of a run, its failure
\* included, changes any createExpense or updateExpense request, and a
\* request that has made its schedule call ends 201/200 unless its own
\* populate is rejected.
C13_FireAndForget ==
    /\ [][\A k \in Keys :
            trigCount'[k] # trigCount[k] =>
                /\ runs' = runs
                /\ reports' = reports
                /\ departments' = departments
                /\ expenses' = expenses
                /\ debounceTimers'[k] \in DOMAIN timers'
                /\ \A b \in Keys \ {k} : debounceTimers'[b] = debounceTimers[b]
                /\ \A h \in DOMAIN timers :
                      Key(timers[h].month, timers[h].year) # k =>
                          h \in DOMAIN timers' /\ timers'[h] = timers[h]
                /\ \E x \in MutationIds :
                      /\ mutations[x].pc = "stored"
                      /\ mutations'[x].pc = "populate"]_vars
    /\ [][(\E h \in TimerIds : runs'[h] # runs[h]) => mutations' = mutations]_vars
    /\ [](\A x \in MutationIds :
            (mutations[x].pc = "done" /\ mutations[x].armed # NoTimer) =>
                \/ mutations[x].status \in {200, 201}
                \/ mutations[x].status = 500 /\ mutations[x].error = QueryFailed)

\* a createExpense request was answered 201 and the run its schedule call
\* led to has failed
C13_Witness ==
    \E x \in MutationIds :
        /\ mutations[x].kind = "create"
        /\ mutations[x].status = 201
        /\ mutations[x].armed # NoTimer
        /\ runs[mutations[x].armed].pc = "failed"

\* C14: a Global report is in the collection for a period only if a run of
\* generateMonthlyReport for that period has completed with its upsert, and
\* the only step that brings a Global report into the collection is the
\* successful upsert of such a run; generateReport creates Department
\* reports only.
C14_GlobalOnlyFromRun ==
    /\ [](\A r \in reports :
            r.type = "Global" =>
                \E h \in TimerIds : /\ runs[h].pc = "done"
                                    /\ runs[h].month = r.month
                                    /\ runs[h].year = r.year)
    /\ [][\A r \in reports' :
            (r.type = "Global" /\ ~ \E old \in reports : old._id = r._id) =>
                \E h \in TimerIds : /\ runs[h].pc = "upsert"
                                    /\ runs'[h].pc = "done"
                                    /\ runs[h].month = r.month
                                    /\ runs[h].year = r.year]_vars

\* a Global and a Department report of one period are stored, each by its
\* own write path
C14_Witness ==
    \E g, d \in reports :
        /\ g.type = "Global" /\ d.type = "Department"
        /\ g.month = d.month /\ g.year = d.year
        /\ \E q \in DOMAIN requests : requests[q].status = 201

\* C15 as stated: a fallback analysis has riskLevel High when the percentage
\* of the budget used is above 90, Medium when it is above 75 and Low
\* otherwise, in the department adapter (the analysis a generateReport
\* request holds after an answer without a JSON object) and in the global
\* path of the scheduler (the reportData a run holds after an unparseable
\* answer).
C15_FallbackThreeLevels ==
    /\ \A q \in RequestIds :
          (/\ requests[q].pc = "create"
           /\ requests[q].answer \in {"empty", "unparseable", "null"}
           /\ requests[q].allocatedBudget > 0) =>
              requests[q].analysis.riskLevel =
                  Def(IF requests[q].totalSpent * 100 > 90 * requests[q].allocatedBudget
                      THEN "High"
                      ELSE IF requests[q].totalSpent * 100 > 75 * requests[q].allocatedBudget
                      THEN "Medium" ELSE "Low")
    /\ \A h \in TimerIds :
          (/\ runs[h].pc = "upsert"
           /\ runs[h].answer = "unparseable"
           /\ runs[h].totalAllocatedBudget > 0) =>
              runs[h].reportData.riskLevel =
                  Def(IF runs[h].totalSpent * 100 > 90 * runs[h].totalAllocatedBudget
                      THEN "High"
                      ELSE IF runs[h].totalSpent * 100 > 75 * runs[h].totalAllocatedBudget
                      THEN "Medium" ELSE "Low")

\* C16 as stated: for a department whose allocated budget is 0 every
\* percentage-used value the program computes is the number 0: the entry of
\* the scheduler's snapshot, and the percentageUsed generateReport computes
\* and passes to create() in dataSnapshot.
C16_ZeroBudgetZeroPercent ==
    /\ \A h \in TimerIds :
          \A i \in DOMAIN runs[h].departmentsSnapshot :
              runs[h].departmentsSnapshot[i].allocatedBudget = 0 =>
                  runs[h].departmentsSnapshot[i].percentageUsed = 0
    /\ \A q \in RequestIds :
          (requests[q].pc = "create" /\ requests[q].allocatedBudget = 0) =>
              DepartmentReportData(requests[q]).dataSnapshot[1].percentageUsed
                  = <<"number", 0>>

\* C17 as stated: no request that called the adapter and whose provider call
\* failed, or whose answer held no JSON object, is answered with the
\* adapter's failure.
C17_NeverSurfacesFailure ==
    \A q \in RequestIds :
        (\/ requests[q].answer \in {"error", "empty", "unparseable", "null"}
         \/ requests[q].globalAnswer \in {"error", "empty", "unparseable", "null"}) =>
            ~(requests[q].status = 500
              /\ requests[q].message = "Failed to generate AI analysis")

\* C17, amended: an answer that holds no JSON object is not surfaced: the
\* department adapter returns the fallback with summary, riskLevel (Low,
\* Medium or High) and recommendations, and generateReport goes on; the
\* global adapter returns its own fallback, which carries summary, risks,
\* suggestions, predictedNextMonthSpend and optimizationTips (no riskLevel,
\* no recommendations), and generateGlobalAI answers 200 with it.  A failed
\* provider call is surfaced by both adapters as a result without analysis
\* (success: false), which both handlers answer with 500 'Failed to generate
\* AI analysis'.
C17_OnlyParseFailureAbsorbed ==
    \A q \in RequestIds :
        /\ requests[q].answer \in {"empty", "unparseable", "null"} =>
              /\ requests[q].pc \in {"create", "populate"}
              /\ requests[q].pc = "create" =>
                    /\ requests[q].analysis.summary # Undefined
                    /\ requests[q].analysis.riskLevel
                          \in {Def("Low"), Def("Medium"), Def("High")}
                    /\ requests[q].analysis.recommendations # Undefined
        /\ requests[q].globalAnswer \in {"empty", "unparseable", "null"} =>
              /\ requests[q].status = 200
              /\ requests[q].data # Undefined
              /\ DOMAIN requests[q].data[1] =
                    {"summary", "risks", "suggestions",
                     "predictedNextMonthSpend", "optimizationTips"}
        /\ (requests[q].answer = "error" \/ requests[q].globalAnswer = "error") =>
              /\ requests[q].pc = "done"
              /\ requests[q].status = 500
              /\ requests[q].message = "Failed to generate AI analysis"
              /\ requests[q].data = Undefined
              /\ requests[q].analysis.summary = Undefined

\* a generateGlobalAI request was answered 200 with the fallback, which
\* names a department at risk, and another request was answered 500 after
\* its provider call failed
C17_Witness ==
    \E q1, q2 \in RequestIds :
        /\ requests[q1].globalAnswer = "unparseable"
        /\ requests[q1].status = 200
        /\ Len(requests[q1].data[1].risks) > 0
        /\ requests[q2].globalAnswer = "error"
        /\ requests[q2].status = 500

\* C18 as stated: the spending calculateDepartmentSpending(d, m, y) answers
\* to generateReport is the sum of the amounts of the expenses of d dated
\* from the first millisecond of the month (day 1, 00:00:00.000) to its last
\* millisecond (last day, 23:59:59.999), both included.
C18_ClosedMonthWindow ==
    \A q \in RequestIds :
        requests[q].pc = "previous" =>
            requests[q].totalSpent =
                SumAmounts({e \in expenses :
                    /\ e.departmentId = requests[q].departmentId
                    /\ e.date.year = requests[q].year
                    /\ e.date.month = requests[q].month
                    /\ e.date.day \in 1..DaysInMonth(requests[q].month, requests[q].year)
                    /\ e.date.ms \in 0..86399999})

\* C19 as stated: every report in the collection, Department or Global, has
\* a riskLevel that is Low, Medium or High.
C19_StoredRiskLevelValid ==
    \A r \in reports : r.riskLevel \in {Def("Low"), Def("Medium"), Def("High")}

\* C20 as stated: every report in the collection has its month in 1..12 and
\* its year in 2020..2100, whatever the dates of the expenses that
\* createExpense and updateExpense stored before the runs.
C20_StoredPeriodInRange ==
    \A r \in reports : r.month \in 1..12 /\ r.year \in 2020..2100

\* C21 as stated: a getMonthlyTrend call with numberOfMonths = n >= 1
\* returns n entries, each with its month in 1..12, that are the n
\* consecutive calendar months ending with the current month of the year
\* asked for, oldest first.
C21_TrendConsecutiveMonths ==
    trend.numberOfMonths >= 1 =>
        /\ Len(trend.entries) = trend.numberOfMonths
        /\ \A k \in DOMAIN trend.entries :
              /\ trend.entries[k].month \in 1..12
              /\ trend.entries[k].year * 12 + trend.entries[k].month
                    = trend.year * 12 + trend.currentMonth
                      - (trend.numberOfMonths - k)

\* the sum of f[d] over the departments ds
RECURSIVE SumOver(_, _)
SumOver(ds, f) ==
    IF ds = {} THEN 0
    ELSE LET d == CHOOSE x \in ds : TRUE
         IN  f[d] + SumOver(ds \ {d}, f)

C23_SpendingFailureFailsRun ==
    /\ [][\A h \in TimerIds :
            (runs[h].pc = "spend" /\ runs'[h].pc # "spend" /\ runs'[h].pc # "ai") =>
                /\ runs'[h].pc = "failed"
                /\ runs'[h].failedAt = "spend"
                /\ reports' = reports]_vars
    /\ [][\A h \in TimerIds : runs[h].pc = "failed" => runs'[h] = runs[h]]_vars
    /\ [](\A h \in TimerIds :
            runs[h].pc \in {"ai", "upsert"} =>
                LET snapshot == IF runs[h].pc = "ai" THEN runs[h].departmentsSnapshot
                                ELSE runs[h].reportData.departmentsSnapshot[1]
                IN  Len(snapshot) = Cardinality({d \in departments : d.status = "Active"}))
    /\ [](\A r \in reports :
            r.type = "Global" =>
                {r.departmentsSnapshot[1][i].departmentName :
                    i \in DOMAIN r.departmentsSnapshot[1]}
                  = {d.name : d \in {x \in departments : x.status = "Active"}})

\* the second spending query of a run failed after the first had answered,
\* while the report of an earlier run is stored
C23_Witness ==
    \E h \in TimerIds :
        /\ runs[h].pc = "failed"
        /\ runs[h].failedAt = "spend"
        /\ \E r \in reports : r.type = "Global" /\ r.month = runs[h].month
                                                  /\ r.year = runs[h].year

\* C24: a generateReport request for a department id that no department
\* has is answered in its first step, with 404 'Department not found' (or
\* with 500 when the lookup itself is rejected): it never reaches the
\* lookup of an existing report, the spending queries, the analysis call or
\* create(), and the step that answers it leaves the report collection as
\* it was.
C24_UnknownDepartmentNotFound ==
    /\ [](\A q \in RequestIds :
            (/\ requests[q].pc # "none"
             /\ ~ \E d \in departments : d._id = requests[q].departmentId
             /\ requests[q].departmentId # "") =>
                /\ requests[q].pc = "done"
                /\ \/ /\ requests[q].status = 404
                      /\ requests[q].message = "Department not found"
                   \/ /\ requests[q].status = 500
                      /\ requests[q].error = QueryFailed
                /\ ~requests[q].aiCalled
                /\ requests[q].created = 0)
    /\ [][\A q \in RequestIds :
            (requests[q].pc = "none" /\ requests'[q].status = 404) =>
                reports' = reports /\ nextReportId' = nextReportId]_vars

\* a request for an unknown department was answered 404 while the report
\* another request created is in the collection
C24_Witness ==
    \E q \in RequestIds :
        /\ requests[q].status = 404
        /\ requests[q].departmentId = "d9"
        /\ reports # {}

\* C25: in every reachable state a key has at most one armed timer; the
\* registry holds a handle for a key exactly when a timer of that key is
\* armed (set, not yet fired, not cancelled), and the handle is that
\* timer's; and a timer that a later schedule call replaced is not armed
\* any more and its callback has not run.
C25_RegistryMatchesTimers ==
    /\ \A k \in Keys :
          /\ Cardinality(ArmedFor(k)) <= 1
          /\ debounceTimers[k] # NoTimer <=> ArmedFor(k) # {}
          /\ debounceTimers[k] # NoTimer => ArmedFor(k) = {debounceTimers[k]}
    /\ \A h \in cancelled :
          /\ h \notin DOMAIN timers
          /\ runs[h].pc = "none"
          /\ \A k \in Keys : debounceTimers[k] # h

\* a key's timer was replaced, the replacement has fired and left the
\* registry, and the timer of a later call is armed and registered
C25_Witness ==
    \E k \in Keys, h \in cancelled, fired \in TimerIds :
        /\ h < fired
        /\ Started(fired) /\ RunKey(fired) = k
        /\ fired < debounceTimers[k]
        /\ debounceTimers[k] \in DOMAIN timers

\* C26: every armed timer stops being armed, and a timer that was set and
\* is not armed any more was either replaced by a later call for its key or
\* its callback has run and started a run, so the timer of a key's last call
\* does start its run; a key that is in the registry leaves it; and
\* whenever no timer is armed the registry is empty.
C26_QuietKeyRuns ==
    /\ \A h \in TimerIds : (h \in DOMAIN timers) ~> (h \notin DOMAIN timers)
    /\ [](\A h \in TimerIds :
            h < nextTimer =>
                \/ h \in DOMAIN timers
                \/ h \in cancelled
                \/ runs[h].pc # "none")
    /\ \A p \in Periods :
          (debounceTimers[Key(p[1], p[2])] # NoTimer)
              ~> (debounceTimers[Key(p[1], p[2])] = NoTimer)
    /\ [](DOMAIN timers = {} => \A k \in RegistryKeys : debounceTimers[k] = NoTimer)

\* a key was triggered twice, the run of its last timer has started, and
\* nothing is armed or registered any more
C26_Witness ==
    \E k \in Keys, h \in TimerIds :
        /\ trigCount[k] = 2
        /\ cancelled # {}
        /\ h \notin cancelled
        /\ runs[h].pc # "none" /\ RunKey(h) = k
        /\ DOMAIN timers = {}
        /\ \A b \in Keys : debounceTimers[b] = NoTimer

\* C27 as stated: when two runs of a key have both completed, no run is in
\* progress, no timer is armed and no createExpense or updateExpense request
\* is between its write and its schedule call, the Global report of the key
\* carries the spending of the Active departments as the collection has it,
\* which is the data as of the key's latest trigger.
C27_LastTriggerWins ==
    \A k \in Keys :
        (/\ Cardinality({h \in TimerIds : runs[h].pc = "done" /\ RunKey(h) = k}) = 2
         /\ \A h \in TimerIds : ~InProgress(h)
         /\ DOMAIN timers = {}
         /\ \A x \in MutationIds : mutations[x].pc \in {"none", "done"}) =>
            \A r \in reports :
                (r.type = "Global" /\ Key(r.month, r.year) = k) =>
                    r.totalSpent =
                        Def(SumAmounts({e \in expenses :
                              /\ \E d \in departments :
                                    d._id = e.departmentId /\ d.status = "Active"
                              /\ DateLE(startDate(r.month, r.year), e.date)
                              /\ DateLE(e.date, endDate(r.month, r.year))}))

\* what the expenses es dated in the month of key k amount to
SpentIn(k, es) ==
    SumAmounts({e \in es : Key(e.date.month, e.date.year) = k})

\* C28 as stated: once no createExpense, updateExpense or deleteExpense
\* request is under way, scheduleReportGeneration has been called for every
\* period whose spending differs from what it was at the start; and a
\* request refused as invalid, not found or forbidden has armed no timer.
C28_EveryChangeScheduled ==
    /\ (\A x \in MutationIds : mutations[x].pc \in {"none", "done"}) =>
          \A k \in Keys :
              SpentIn(k, expenses) # SpentIn(k, InitialExpenses) => trigCount[k] > 0
    /\ \A x \in MutationIds :
          (mutations[x].pc = "done" /\ mutations[x].status \in {400, 403, 404}) =>
              mutations[x].armed = NoTimer

\* C29 as stated: of two finished generateReport requests for the same
\* department and period of which one created the report and the other did
\* not (and no data-store call, validator or provider failed it), the other was
\* answered 400 "Report already exists ..."; at most one report of the key
\* is stored, and it is the one the creating request was answered with.
C29_LoserGetsConflict ==
    \A q1, q2 \in RequestIds :
        (/\ q1 # q2
         /\ requests[q1].pc = "done" /\ requests[q2].pc = "done"
         /\ requests[q1].departmentId # ""
         /\ requests[q1].departmentId = requests[q2].departmentId
         /\ requests[q1].month = requests[q2].month
         /\ requests[q1].year = requests[q2].year
         /\ requests[q1].created # 0
         /\ requests[q2].created = 0
         /\ requests[q2].error \notin {QueryFailed, ValidationFailed}
         /\ requests[q2].message # "Failed to generate AI analysis")
        => /\ requests[q2].status = 400
           /\ requests[q2].message = ReportExists
           /\ \A r \in reports :
                 (/\ r.type = "Department"
                  /\ r.departmentId = Def(requests[q1].departmentId)
                  /\ r.month = requests[q1].month
                  /\ r.year = requests[q1].year) => r._id = requests[q1].created

\* C30 as stated: every stored expense references a department that exists.
C30_ExpenseHasDepartment ==
    \A e \in expenses : \E d \in departments : d._id = e.departmentId

====
